---------------------------- MODULE Spec2Model ----------------------------
(***************************************************************************)
(* SynthesisTalk backend: the chat turn (routers/chat.py), the context     *)
(* builder (services/context_service.py) and the LLM provider chain        *)
(* (llm_providers/llm_manager.py).                                          *)
(*                                                                         *)
(* A text is a run-length encoded word list: a sequence of blocks          *)
(* [w |-> word, n |-> repetitions], so len(text.split()) is the sum of the *)
(* n's and texts of thousands of words stay small values.                  *)
(***************************************************************************)
EXTENDS Integers, Sequences, FiniteSets, TLC

\* ------------------------------------------------------------------ bounds
\* Words of the large user message / stored message of the model.
BigWords == 3200
\* Words of the message that fills the budget to within the reserve.
MidWords == 2850
HugeWords == 6200
\* Messages already in the store when the turn starts.
MaxInitMsgs == 1
\* Documents already in the store when the turn starts.
MaxDocs == 1
MaxFeedbackMsgs == 3

\* ------------------------------------------------------- program constants
max_context_tokens == 8000
DefaultMaxHistory == 10
MaxGeneralDocs == 2
WebNumResults == 3
TopK == 5

\* ------------------------------------------------------------------- texts
Blk(w, k) == [w |-> w, n |-> k]
Txt(w) == <<Blk(w, 1)>>
EmptyText == <<>>

RECURSIVE Words(_)
\* len(text.split())
Words(t) == IF t = <<>> THEN 0 ELSE Head(t).n + Words(Tail(t))

\* The distinct words of a text: set(text.split())
WordSet(t) == {t[i].w : i \in 1..Len(t)}

\* The element of a one-element set. In {F(x) : x \in {e}} the expression e
\* is evaluated once, however often F uses x.
TheOne(S) == CHOOSE y \in S : TRUE

\* str.lower(), on the ASCII letters
UpperCase == "ABCDEFGHIJKLMNOPQRSTUVWXYZ"
LowerCase == "abcdefghijklmnopqrstuvwxyz"
LowerChar(c) ==
    IF \E i \in 1..Len(UpperCase) : SubSeq(UpperCase, i, i) = c
    THEN LET i == CHOOSE j \in 1..Len(UpperCase) : SubSeq(UpperCase, j, j) = c
         IN SubSeq(LowerCase, i, i)
    ELSE c
RECURSIVE LowerFrom(_, _)
LowerFrom(s, i) ==
    IF i > Len(s) THEN "" ELSE LowerChar(SubSeq(s, i, i)) \o LowerFrom(s, i + 1)
lower(s) == TheOne({LowerFrom(x, 1) : x \in {s}})

\* needle in haystack, on strings
IsSubstring(needle, haystack) ==
    \E i \in 1..(Len(haystack) - Len(needle) + 1) :
        SubSeq(haystack, i, i + Len(needle) - 1) = needle

\* The characters of a text of one-word runs, a run written out at most
\* twice: every word and every pair of neighbouring words of the text is in
\* it, so a needle with at most one blank is in it exactly when it is in the
\* text.
RECURSIVE Chars(_)
Chars(t) ==
    IF t = <<>> THEN ""
    ELSE TheOne({IF run = "" THEN rest
                 ELSE IF rest = "" THEN run
                 ELSE run \o " " \o rest :
                    run \in {IF Head(t).n = 0 THEN ""
                             ELSE IF Head(t).n = 1 THEN Head(t).w
                             ELSE Head(t).w \o " " \o Head(t).w},
                    rest \in {Chars(Tail(t))}})

\* "x" in text.lower()
Contains(t, w) == \E message_lower \in {lower(Chars(t))} : IsSubstring(w, message_lower)

\* Normal form of a run-length encoded text: no empty block, and two
\* neighbouring runs of the same word are one run.
RECURSIVE Norm(_)
Norm(t) ==
    IF t = <<>> THEN <<>>
    ELSE IF Head(t).n = 0 THEN Norm(Tail(t))
    ELSE TheOne({IF r # <<>> /\ Head(r).w = Head(t).w
                 THEN <<Blk(Head(t).w, Head(t).n + Head(r).n)>> \o Tail(r)
                 ELSE <<Head(t)>> \o r : r \in {Norm(Tail(t))}})

\* a + sep + b for a whitespace separator: the word lists are concatenated
Cat(a, b) == TheOne({Norm(x) : x \in {a \o b}})

RECURSIVE Join(_)
\* sep.join(parts) for a whitespace separator ("\n", "\n\n")
Join(parts) == IF parts = <<>> THEN <<>> ELSE Cat(Head(parts), Join(Tail(parts)))

\* ---------------------------------------------------------------- requests
Sessions == {1, 2}
ThisSession == CHOOSE s \in Sessions : \A t \in Sessions : s <= t

ReasoningTypes == {"cot", "react", "hybrid"}
\* Python's None: where a string, a text or a dict is expected
None == "None"
NoneText == <<[w |-> "None", n |-> 0]>>
NoneRec == [none |-> TRUE]

MsgHello == Txt("hello")
MsgSummarize == <<Blk("summarize", 1), Blk("inflation", 1)>>
MsgBig == <<Blk("why", 1), Blk("inflation", BigWords)>>
MsgMid == <<Blk("why", 1), Blk("inflation", MidWords)>>
\* A message whose own estimate is above max_context_tokens.
MsgHuge == <<Blk("why", 1), Blk("inflation", HugeWords)>>
UserMessages == {MsgHello, MsgSummarize, MsgBig}

\* ChatRequest (models/api_models.py)
ChatRequests ==
    [message : UserMessages, session_id : {ThisSession},
     enable_web_search : BOOLEAN, enable_document_search : BOOLEAN,
     enable_reasoning : BOOLEAN, reasoning_type : ReasoningTypes \cup {None}]

\* Message rows (models/db_models.py)
Message(sid, sender, content) ==
    [session_id |-> sid, sender |-> sender, content |-> content,
     thumbs_up |-> FALSE, thumbs_down |-> FALSE]

\* routers/chat.py provide_feedback: the message with the flags set
Rated(message, up, down) == [message EXCEPT !.thumbs_up = up, !.thumbs_down = down]

StoredMessages ==
    {Message(ThisSession, "user", MsgBig), Message(ThisSession, "bot", MsgBig),
     Message(2, "user", MsgBig),
     Rated(Message(2, "bot", <<Blk("Bad", 3)>>), FALSE, TRUE)}

\* Document rows (models/db_models.py)
Document(id, sid, filename, text) ==
    [id |-> id, session_id |-> sid, filename |-> filename, text |-> text]

DocTexts == {<<Blk("inflation", 20)>>, <<Blk("recipes", 12)>>}
StoredDocuments ==
    {Document(1, ThisSession, "report.pdf", t) : t \in DocTexts}
    \cup {Document(1, 2, "report.pdf", <<Blk("inflation", 20)>>)}

SeqsUpTo(S, k) == UNION {[1..m -> S] : m \in 0..k}


\* ------------------------------------------------------ LLM provider chain
\* llm_manager.py: the ordered provider list of get_llm_response
\* A chain that tries Groq before OpenAI (sensitivity of the fixed order).
providers_groq_first == <<"Groq", "OpenAI", "NGU">>

\* llm_manager.py lines 13-17
providers == <<"OpenAI", "Groq", "NGU">>
Providers == {providers[i] : i \in 1..Len(providers)}

\* call_openai and call_ngu are coroutine functions (async def); call_groq is
\* an ordinary function.
IsAsync(p) == p \in {"OpenAI", "NGU"}

\* What the provider's endpoint and configuration do to one attempt; with
\* "no_answer" the endpoint accepts the request and never answers it.
Outcomes == {"ok", "no_key", "error", "no_answer"}

\* The assignments of outcomes to the providers that the model explores: the
\* providers that fail in one run fail the same way.
OutcomeAssignments ==
    {oc \in [Providers -> Outcomes] :
        \A p, q \in Providers : oc[p] # "ok" /\ oc[q] # "ok" => oc[p] = oc[q]}

ReplyText(p) == Txt("reply of " \o p)

Returned(t) == [kind |-> "text", text |-> t, of |-> None]
Raised(m) == [kind |-> "raise", text |-> Txt(m), of |-> None]
Coroutine(p) == [kind |-> "coroutine", text |-> EmptyText, of |-> p]
\* A body that is still waiting for its endpoint, and has no end.
Pending == [kind |-> "pending", text |-> Txt("pending"), of |-> None]

\* The body of call_openai: what running it to its end yields. The call of
\* openai_client.agenerate (lines 19-26) is given no timeout, and the client
\* (line 11) none either.
call_openai_body(o) ==
    IF o = "no_key" THEN Raised("OpenAI API key not configured")
    ELSE IF o = "no_answer" THEN Pending
    ELSE IF o = "error" THEN Raised("OpenAI API call failed: error")
    ELSE Returned(ReplyText("OpenAI"))

\* The body of call_groq; requests.post(..., timeout=30) raises a Timeout, a
\* RequestException, when the endpoint does not answer.
call_groq_body(o) ==
    IF o = "no_key" THEN Raised("Groq API key not configured")
    ELSE IF o = "no_answer" THEN Raised("Groq API request failed: timed out")
    ELSE IF o = "error" THEN Raised("Groq API request failed: error")
    ELSE Returned(ReplyText("Groq"))

\* The body of call_ngu; client.post(..., timeout=30) raises a
\* TimeoutException, a RequestError, when the endpoint does not answer.
call_ngu_body(o) ==
    IF o = "no_key" THEN Raised("NGU API key or base URL not configured")
    ELSE IF o = "no_answer" THEN Raised("NGU API request failed: timed out")
    ELSE IF o = "error" THEN Raised("NGU API request failed: error")
    ELSE Returned(ReplyText("NGU"))

ProviderBody(p, o) ==
    CASE p = "OpenAI" -> call_openai_body(o)
      [] p = "Groq" -> call_groq_body(o)
      [] OTHER -> call_ngu_body(o)

\* The expression provider_func(prompt) inside get_llm_response, which is an
\* ordinary (non-async) function and does not await: calling a coroutine
\* function runs none of its body and yields a coroutine object; calling
\* call_groq runs it to its end.
provider_func(p, o) == IF IsAsync(p) THEN Coroutine(p) ELSE ProviderBody(p, o)

RECURSIVE JoinStr(_)
\* "; ".join(errors)
JoinStr(es) ==
    IF es = <<>> THEN ""
    ELSE IF Len(es) = 1 THEN es[1]
    ELSE es[1] \o "; " \o JoinStr(Tail(es))

ApologyPrefix ==
    "I apologize, but I'm currently unable to process your request due to technical issues with the AI services. Please try again later."

\* llm_manager.py line 36
Apology(es) == Txt(ApologyPrefix \o " Error details: " \o JoinStr(es))

\* chat.py lines 170-173
GenericApology == Txt(ApologyPrefix)

\* error_msg of llm_manager.py line 28
ErrorMsg(p, r) == p \o " failed: " \o r.text[1].w

\* The state of one run of the chain: which providers were called (in
\* order), what became of each attempt that ran, the recorded errors and the
\* returned value.
ChainState(c, st, es, r) == [calls |-> c, status |-> st, errors |-> es, ret |-> r]

\* Statuses of an attempt: "idle" (its body has not run), "inflight",
\* "success", "failed".
IdleStatus == [p \in Providers |-> "idle"]

RECURSIVE llm_loop_no_return(_, _, _, _, _)
\* A loop that keeps the first result but goes on calling the providers after
\* it (sensitivity of the return inside the loop).
llm_loop_no_return(ps, i, oc, c, acc) ==
    IF i > Len(ps)
    THEN ChainState(c, acc.status, acc.errors, Returned(Apology(acc.errors)))
    ELSE
      LET p == ps[i]
          r == provider_func(p, oc[p])
      IN llm_loop_no_return(ps, i + 1, oc, Append(c, p),
            [status |-> [acc.status EXCEPT ![p] =
                            IF r.kind = "raise" THEN "failed"
                            ELSE IF r.kind = "text" THEN "success" ELSE @],
             errors |-> IF r.kind = "raise" THEN Append(acc.errors, ErrorMsg(p, r))
                        ELSE acc.errors])

RECURSIVE llm_loop(_, _, _, _, _)
\* The for loop of get_llm_response from provider index i on.
llm_loop(ps, i, oc, c, acc) ==
    IF i > Len(ps)
    THEN ChainState(c, acc.status, acc.errors, Returned(Apology(acc.errors)))
    ELSE
      LET p == ps[i]
          r == provider_func(p, oc[p])
          c2 == Append(c, p)
      IN IF r.kind = "raise"
         THEN llm_loop(ps, i + 1, oc, c2,
                       [status |-> [acc.status EXCEPT ![p] = "failed"],
                        errors |-> Append(acc.errors, ErrorMsg(p, r))])
         ELSE ChainState(c2,
                         IF r.kind = "text"
                         THEN [acc.status EXCEPT ![p] = "success"]
                         ELSE acc.status,
                         acc.errors, r)

\* get_llm_response(prompt), llm_manager.py lines 9-36, under the outcomes oc
get_llm_response(oc) ==
    llm_loop(providers, 1, oc, <<>>, [status |-> IdleStatus, errors |-> <<>>])


\* ------------------------------------------------------------ token trimmer
\* tiktoken: the tokens one word of the text encodes to. A word with its
\* leading space is one token; a rare word is several tokens, each a piece
\* of the word; a rare character is several tokens, each a piece of its
\* UTF-8 bytes.
MultiTokenWords == {"recipes"}
ByteSplitWords == {"U+13000"}
ReplacementChar == "U+FFFD"
TokensPerWord(w) ==
    IF w \in ByteSplitWords THEN 3 ELSE IF w \in MultiTokenWords THEN 2 ELSE 1

\* The models tiktoken.encoding_for_model has an encoding for; for any other
\* name it raises KeyError.
KnownModels == {"gpt-4o", "gpt-3.5-turbo"}
encoding_for_model(model_name) == model_name \in KnownModels

RECURSIVE Tokens(_)
\* len(enc.encode(text))
Tokens(t) ==
    IF t = <<>> THEN 0 ELSE Head(t).n * TokensPerWord(Head(t).w) + Tokens(Tail(t))

\* The tokens of one word. "~w" is the first piece of the word w.
WordTokens(w) ==
    IF w \in ByteSplitWords \cup MultiTokenWords
    THEN [i \in 1..TokensPerWord(w) |-> w \o "#" \o ToString(i)]
    ELSE IF Len(w) > 0 /\ SubSeq(w, 1, 1) = "~" THEN <<SubSeq(w, 2, Len(w)) \o "#1">>
    ELSE <<w>>

RECURSIVE Repeat(_, _)
Repeat(sq, k) == IF k <= 0 THEN <<>> ELSE sq \o Repeat(sq, k - 1)

RECURSIVE encode(_)
\* enc.encode(text), token by token (for short texts)
encode(t) ==
    IF t = <<>> THEN <<>>
    ELSE Repeat(WordTokens(Head(t).w), Head(t).n) \o encode(Tail(t))

RECURSIVE TakeTokens(_, _)
\* enc.decode(tokens[:k]): the leading words; when the cut falls within the
\* tokens of a word, the pieces before the cut, and when it falls within the
\* bytes of a character, the replacement character that decoding the
\* incomplete bytes gives (bytes.decode("utf-8", errors="replace")).
TakeTokens(t, k) ==
    IF t = <<>> \/ k <= 0 THEN <<>>
    ELSE LET b == Head(t)
             tpw == TokensPerWord(b.w)
         IN IF b.n * tpw <= k
            THEN <<b>> \o TakeTokens(Tail(t), k - b.n * tpw)
            ELSE <<Blk(b.w, k \div tpw)>>
                 \o (IF k % tpw > 0
                     THEN <<Blk(IF b.w \in ByteSplitWords THEN ReplacementChar
                                ELSE "~" \o b.w, 1)>>
                     ELSE <<>>)

\* utils/text_utils.py
trim_text_to_token_limit(text, max_tokens) ==
    IF Tokens(text) <= max_tokens THEN text ELSE Norm(TakeTokens(text, max_tokens))

\* --------------------------------------------------------- source adapters
SelectSession(rows, sid) == SelectSeq(rows, LAMBDA r : r.session_id = sid)

LastN(sq, k) == IF Len(sq) <= k THEN sq ELSE SubSeq(sq, Len(sq) - k + 1, Len(sq))

\* f"{role}: {msg.content}"
HistoryLine(msg) ==
    Cat(Txt(IF msg.sender = "user" THEN "You:" ELSE "Assistant:"), msg.content)

RECURSIVE HistoryLines(_)
HistoryLines(msgs) ==
    IF msgs = <<>> THEN <<>> ELSE <<HistoryLine(Head(msgs))>> \o HistoryLines(Tail(msgs))

\* ContextBuilder._get_conversation_history: the max_messages most recent
\* messages of the session, oldest first; "" when the query raises.
get_conversation_history(db_messages, session_id, max_messages, db_ok) ==
    IF ~db_ok THEN EmptyText
    ELSE Join(HistoryLines(LastN(SelectSession(db_messages, session_id), max_messages)))

\* calculate_text_similarity: Jaccard index |i| / |u| of the two word sets,
\* kept as the pair <<|i|, |u|>>; <<0, 1>> stands for 0.0.
calculate_text_similarity(query, text) ==
    LET q == WordSet(query)
        d == WordSet(text)
    IN IF q = {} \/ d = {} THEN <<0, 1>>
       ELSE <<Cardinality(q \cap d), Cardinality(q \cup d)>>

\* similarity_score > 0.1
AboveThreshold(sim) == 10 * sim[1] > sim[2]

\* a.similarity_score > b.similarity_score
SimGreater(a, b) == a[1] * b[2] > b[1] * a[2]

RECURSIVE TakeWords(_, _)
\* " ".join(words[:k])
TakeWords(t, k) ==
    IF t = <<>> \/ k <= 0 THEN <<>>
    ELSE IF Head(t).n <= k THEN <<Head(t)>> \o TakeWords(Tail(t), k - Head(t).n)
    ELSE <<Blk(Head(t).w, k)>>

RECURSIVE CharLen(_)
\* len(text) of a text of space-separated runs
CharLen(t) ==
    IF t = <<>> THEN 0
    ELSE Head(t).n * (Len(Head(t).w) + 1) - (IF Len(t) = 1 THEN 1 ELSE 0) + CharLen(Tail(t))

RECURSIVE WordsWithin(_, _)
\* The leading whole words, each with its following space, that fit in c
\* characters.
WordsWithin(t, c) ==
    IF t = <<>> THEN 0
    ELSE LET wl == Len(Head(t).w) + 1
             fit == c \div wl
         IN IF fit >= Head(t).n
            THEN Head(t).n + WordsWithin(Tail(t), c - Head(t).n * wl)
            ELSE fit

SnippetChars == 200
SnippetWords == 30

\* text[:max_length] + "...": the whole words that fit and one last word made
\* of what is left of the cut word and the dots.
CutChars(t, c) ==
    IF CharLen(t) > c THEN Cat(TakeWords(t, WordsWithin(t, c)), Txt("...")) ELSE t

\* extract_relevant_snippet for a text whose best window is its first one
\* (best_pos = 0): words[0:30], cut at 200 characters.
extract_relevant_snippet(query, text) == CutChars(TakeWords(text, SnippetWords), SnippetChars)

DocResult(doc, query) ==
    [document_id |-> doc.id, filename |-> doc.filename,
     snippet |-> extract_relevant_snippet(query, doc.text),
     similarity_score |-> calculate_text_similarity(query, doc.text)]

RECURSIVE InsertBySim(_, _)
InsertBySim(r, sorted) ==
    IF sorted = <<>> THEN <<r>>
    ELSE IF SimGreater(r.similarity_score, Head(sorted).similarity_score)
         THEN <<r>> \o sorted
         ELSE <<Head(sorted)>> \o InsertBySim(r, Tail(sorted))

RECURSIVE SortBySim(_)
\* results.sort(key=similarity_score, reverse=True), stable
SortBySim(rs) ==
    IF rs = <<>> THEN <<>>
    ELSE InsertBySim(rs[Len(rs)], SortBySim(SubSeq(rs, 1, Len(rs) - 1)))

RECURSIVE DocResults(_, _)
DocResults(docs, query) ==
    IF docs = <<>> THEN <<>>
    ELSE LET r == DocResult(Head(docs), query)
         IN (IF AboveThreshold(r.similarity_score) THEN <<r>> ELSE <<>>)
            \o DocResults(Tail(docs), query)

\* services/document_service.py search_documents: env is "raise" (any
\* exception inside, caught: []), "no_embedding" (generate_embedding gave
\* nothing: []) or "ok".
search_documents(query, session_id, db_documents, env) ==
    IF env # "ok" THEN <<>>
    ELSE LET rs == SortBySim(DocResults(SelectSession(db_documents, session_id), query))
         IN SubSeq(rs, 1, IF Len(rs) < TopK THEN Len(rs) ELSE TopK)


RECURSIVE FormatDocs(_)
\* f"{doc_info}:\n{snippet}\n" per result; doc_info has the file name, the
\* relevance (the score is above 0.1) and the id: six words.
FormatDocs(rs) ==
    IF rs = <<>> THEN <<>>
    ELSE <<Cat(<<Blk("doc_info " \o Head(rs).filename, 6)>>, Head(rs).snippet)>>
         \o FormatDocs(Tail(rs))

\* ContextBuilder._format_document_results
format_document_results(doc_results) ==
    IF doc_results = <<>> THEN EmptyText
    ELSE Join(<<<<Blk("=== RELEVANT DOCUMENTS ===", 4)>>>> \o FormatDocs(doc_results))

RECURSIVE FormatExcerpts(_)
\* f"<icon> {doc.filename}:\n{excerpt}\n" with excerpt = doc.text[:200] + "..."
FormatExcerpts(docs) ==
    IF docs = <<>> THEN <<>>
    ELSE <<Cat(<<Blk("doc " \o Head(docs).filename, 2)>>, CutChars(Head(docs).text, SnippetChars))>>
         \o FormatExcerpts(Tail(docs))

\* ContextBuilder._get_all_documents_for_context; "" when the query raises
get_all_documents_for_context(db_documents, session_id, max_docs, db_ok) ==
    LET docs == SelectSession(db_documents, session_id)
    IN IF ~db_ok \/ docs = <<>> THEN EmptyText
       ELSE Join(<<<<Blk("=== SESSION DOCUMENTS ===", 4)>>>>
                 \o FormatExcerpts(SubSeq(docs, 1, IF Len(docs) < max_docs THEN Len(docs) ELSE max_docs))
                 \o (IF Len(docs) > max_docs THEN <<<<Blk("... and more documents", 5)>>>> ELSE <<>>))

Sentinel == "Search Unavailable"

WebResult(title, snippet) == [title |-> title, snippet |-> snippet]

\* What the DuckDuckGo endpoint does to one search: the request raises, it
\* answers with a status other than 200, or it answers 200 with an abstract
\* (or none) and some related topics.
WebEnvs ==
    {[kind |-> "raise", abstract |-> FALSE, topics |-> 0],
     [kind |-> "status", abstract |-> FALSE, topics |-> 0],
     [kind |-> "ok", abstract |-> FALSE, topics |-> 0],
     [kind |-> "ok", abstract |-> TRUE, topics |-> 4]}

RECURSIVE Topics(_, _)
Topics(from, to) ==
    IF from > to THEN <<>>
    ELSE <<WebResult("topic", <<Blk("topic text", 8)>>)>> \o Topics(from + 1, to)

\* services/web_search.py search_web
search_web(query, num_results, env) ==
    IF env.kind = "raise"
    THEN <<WebResult(Sentinel, Cat(<<Blk("Web search for is currently unavailable. Please try again later.", 11)>>, query))>>
    ELSE IF env.kind = "status" THEN <<>>
    ELSE LET first == IF env.abstract
                      THEN <<WebResult("Instant Answer", <<Blk("abstract", 40)>>)>>
                      ELSE <<>>
             room == num_results - Len(first)
             rel == Topics(1, IF env.topics < room THEN env.topics ELSE room)
             results == first \o rel
         IN SubSeq(results, 1, IF Len(results) < num_results THEN Len(results) ELSE num_results)

\* A test that takes any result for an available one (sensitivity of the
\* sentinel test).
AnyAvailable_any_title(web_results) == TRUE

\* any(r.get("title") != "Search Unavailable" for r in web_results)
AnyAvailable(web_results) == \E i \in 1..Len(web_results) : web_results[i].title # Sentinel

RECURSIVE FormatWeb(_)
FormatWeb(rs) ==
    IF rs = <<>> THEN <<>>
    ELSE (IF Head(rs).title # Sentinel
          THEN <<Cat(<<Blk("web " \o Head(rs).title, 2)>>, Head(rs).snippet)>>
          ELSE <<>>)
         \o FormatWeb(Tail(rs))

\* ContextBuilder._format_web_results
format_web_results(web_results) ==
    IF web_results = <<>> THEN EmptyText
    ELSE Join(<<<<Blk("=== CURRENT WEB INFORMATION ===", 5)>>>> \o FormatWeb(web_results))


\* ------------------------------------------------------------- classifier
analytical_keywords == {"analyze", "compare", "contrast", "evaluate", "assess", "why", "how", "explain"}
procedural_keywords == {"how to", "step", "process", "procedure", "method", "guide"}
creative_keywords == {"create", "generate", "design", "brainstorm", "imagine", "suggest"}
comparative_keywords == {"vs", "versus", "better", "difference", "similar", "compare"}

\* any(keyword in message_lower for keyword in keywords)
AnyKeyword(keywords, message) == \E k \in keywords : Contains(message, k)

\* A classifier that checks the comparative keywords first (sensitivity of
\* the order of the checks).
classify_question_comparative_first(user_message) ==
    IF AnyKeyword(comparative_keywords, user_message) THEN "comparative"
    ELSE IF AnyKeyword(analytical_keywords, user_message) THEN "analytical"
    ELSE IF AnyKeyword(procedural_keywords, user_message) THEN "procedural"
    ELSE IF AnyKeyword(creative_keywords, user_message) THEN "creative"
    ELSE "factual"

\* services/reasoning_service.py classify_question
classify_question(user_message) ==
    IF AnyKeyword(analytical_keywords, user_message) THEN "analytical"
    ELSE IF AnyKeyword(procedural_keywords, user_message) THEN "procedural"
    ELSE IF AnyKeyword(creative_keywords, user_message) THEN "creative"
    ELSE IF AnyKeyword(comparative_keywords, user_message) THEN "comparative"
    ELSE "factual"

\* ------------------------------------------------------------------ merge
Part(type, content, priority) == [type |-> type, content |-> content, priority |-> priority]

RECURSIVE InsertByPriority(_, _)
InsertByPriority(part, sorted) ==
    IF sorted = <<>> THEN <<part>>
    ELSE IF part.priority < Head(sorted).priority THEN <<part>> \o sorted
    ELSE <<Head(sorted)>> \o InsertByPriority(part, Tail(sorted))

\* A merge that leaves the parts in the order given (sensitivity of the sort).
SortByPriority_unsorted(parts) == parts

RECURSIVE SortByPriority(_)
\* context_parts.sort(key=lambda x: x["priority"]): ascending, stable
SortByPriority(parts) ==
    IF parts = <<>> THEN <<>>
    ELSE InsertByPriority(parts[Len(parts)], SortByPriority(SubSeq(parts, 1, Len(parts) - 1)))

\* Token estimates are kept in tenths: len(text.split()) * 1.3 is 13 tenths
\* a word.
Est10(t) == 13 * Words(t)
ReserveBuffer == 100
MinRemaining == 50

\* A truncation that hands the remaining estimate to the trimmer as a token
\* count, without the division by 1.3 (sensitivity of the conversion).
Truncated_without_conversion(content, remaining10) ==
    Cat(trim_text_to_token_limit(content, remaining10 \div 10), <<Blk("[Content truncated...]", 2)>>)

\* Lines 298-303: the fragment trimmed to int(remaining_tokens / 1.3) tokens,
\* and the marker.
Truncated(content, remaining10) ==
    Cat(trim_text_to_token_limit(content, remaining10 \div 13), <<Blk("[Content truncated...]", 2)>>)

RECURSIVE combine_loop_no_minimum(_, _, _, _)
\* A merge that truncates into whatever is left after the reserve, however
\* little (sensitivity of the minimum of 50 tokens).
combine_loop_no_minimum(parts, current10, combined, tiktoken_ok) ==
    IF parts = <<>> THEN [raised |-> FALSE, combined |-> combined]
    ELSE LET part == Head(parts)
             part10 == Est10(part.content)
         IN IF current10 + part10 < 10 * max_context_tokens
            THEN combine_loop_no_minimum(Tail(parts), current10 + part10,
                                         Append(combined, part.content), tiktoken_ok)
            ELSE LET remaining10 == 10 * max_context_tokens - current10 - 10 * ReserveBuffer
                 IN IF remaining10 > 0
                    THEN IF tiktoken_ok
                         THEN [raised |-> FALSE,
                               combined |-> Append(combined, Truncated(part.content, remaining10))]
                         ELSE [raised |-> TRUE, combined |-> combined]
                    ELSE [raised |-> FALSE, combined |-> combined]

RECURSIVE combine_loop_best_fit(_, _, _, _)
\* A merge that goes on with the later fragments after the one that did not
\* fit (sensitivity of the break after the first overflow).
combine_loop_best_fit(parts, current10, combined, tiktoken_ok) ==
    IF parts = <<>> THEN [raised |-> FALSE, combined |-> combined]
    ELSE LET part == Head(parts)
             part10 == Est10(part.content)
         IN IF current10 + part10 < 10 * max_context_tokens
            THEN combine_loop_best_fit(Tail(parts), current10 + part10,
                                       Append(combined, part.content), tiktoken_ok)
            ELSE LET remaining10 == 10 * max_context_tokens - current10 - 10 * ReserveBuffer
                 IN IF remaining10 > 10 * MinRemaining
                    THEN IF tiktoken_ok
                         THEN combine_loop_best_fit(Tail(parts), current10,
                                  Append(combined, Truncated(part.content, remaining10)),
                                  tiktoken_ok)
                         ELSE [raised |-> TRUE, combined |-> combined]
                    ELSE combine_loop_best_fit(Tail(parts), current10, combined, tiktoken_ok)

RECURSIVE combine_loop(_, _, _, _)
\* The for loop of _combine_context_parts (lines 289-304); tiktoken_ok says
\* whether tiktoken can load its encoding when the trimmer is called.
combine_loop(parts, current10, combined, tiktoken_ok) ==
    IF parts = <<>> THEN [raised |-> FALSE, combined |-> combined]
    ELSE LET part == Head(parts)
             part10 == Est10(part.content)
         IN IF current10 + part10 < 10 * max_context_tokens
            THEN combine_loop(Tail(parts), current10 + part10,
                              Append(combined, part.content), tiktoken_ok)
            ELSE LET remaining10 == 10 * max_context_tokens - current10 - 10 * ReserveBuffer
                 IN IF remaining10 > 10 * MinRemaining
                    THEN IF tiktoken_ok
                         THEN [raised |-> FALSE,
                               combined |-> Append(combined, Truncated(part.content, remaining10))]
                         ELSE [raised |-> TRUE, combined |-> combined]
                    ELSE [raised |-> FALSE, combined |-> combined]

\* A merge whose running estimate starts at zero (sensitivity of the user
\* message's share of the budget).
combine_context_parts_from_zero(context_parts, user_message, tiktoken_ok) ==
    TheOne({combine_loop(sorted, 0, <<>>, tiktoken_ok) :
                sorted \in {SortByPriority(context_parts)}})

\* ContextBuilder._combine_context_parts: the list combined_context (its join
\* by blank lines is the returned text), or the trimmer's exception.
combine_context_parts(context_parts, user_message, tiktoken_ok) ==
    TheOne({combine_loop(sorted, Est10(user_message), <<>>, tiktoken_ok) :
                sorted \in {SortByPriority(context_parts)}})

\* Whether the merge calls the trimmer at all on these parts.
RECURSIVE TrimmerCalled(_, _)
TrimmerCalled(parts, current10) ==
    IF parts = <<>> THEN FALSE
    ELSE IF current10 + Est10(Head(parts).content) < 10 * max_context_tokens
         THEN TrimmerCalled(Tail(parts), current10 + Est10(Head(parts).content))
         ELSE 10 * max_context_tokens - current10 - 10 * ReserveBuffer > 10 * MinRemaining

\* -------------------------------------------------------------- reasoning
\* What the reasoning engine does when it is applied: it returns its
\* narrative, or it raises.
Engines == {"ok", "raise"}

\* f"Reasoning Error: {str(e)}"
ReasoningError(e) == Cat(<<Blk("Reasoning Error:", 2)>>, Txt(e))

\* ContextBuilder._apply_reasoning: the narrative of the selected technique
\* (an unknown type falls back to chain of thought), or the text of the
\* except clause when the technique raises.
apply_reasoning(context, user_message, reasoning_type, question_type, engine) ==
    IF engine = "raise" THEN ReasoningError("engine failure")
    ELSE IF reasoning_type = "cot" THEN Txt("chain_of_thought_reasoning")
    ELSE IF reasoning_type = "react" THEN Txt("react_reasoning")
    ELSE IF reasoning_type = "hybrid" THEN Txt("hybrid_reasoning")
    ELSE Txt("chain_of_thought_reasoning")


\* ---------------------------------------------- the reasoning narratives
\* A narrative is the list of lines that "\n".join writes out. A line is a
\* fixed text and, where the line ends with ', '.join(items), the items in
\* their order.
Line(text, items) == [text |-> text, items |-> items]
Plain(text) == Line(text, <<>>)

Take(sq, k) == SubSeq(sq, 1, IF Len(sq) < k THEN Len(sq) ELSE k)

stop_words ==
    {"the", "a", "an", "and", "or", "but", "in", "on", "at", "to", "for", "of", "with", "by"}

\* \w on lower-cased ASCII text
WordCharacters == LowerCase \o "0123456789_"
IsWordChar(c) == \E i \in 1..Len(WordCharacters) : SubSeq(WordCharacters, i, i) = c

RECURSIVE findall_words(_, _, _)
\* The words re.findall(r'\b\w+\b', s) finds from position i on, as a set;
\* s[start..i-1] is the word begun
findall_words(s, i, start) ==
    IF i > Len(s)
    THEN IF start < i THEN {SubSeq(s, start, i - 1)} ELSE {}
    ELSE IF IsWordChar(SubSeq(s, i, i)) THEN findall_words(s, i + 1, start)
    ELSE (IF start < i THEN {SubSeq(s, start, i - 1)} ELSE {})
         \cup findall_words(s, i + 1, i + 1)

\* set(key_concepts): the distinct words longer than three characters that
\* are no stop words
KeyConceptSet(text) ==
    {word \in TheOne({findall_words(s, 1, 1) : s \in {lower(Chars(text))}}) :
        Len(word) > 3 /\ word \notin stop_words}

RECURSIVE ListOfSet(_, _)
\* list(S): the elements of a set of strings in the order of their hashes,
\* which the process fixes when it starts (hash_order lists every element
\* of S once)
ListOfSet(S, hash_order) ==
    IF hash_order = <<>> THEN <<>>
    ELSE (IF Head(hash_order) \in S THEN <<Head(hash_order)>> ELSE <<>>)
         \o ListOfSet(S, Tail(hash_order))

\* services/reasoning_service.py extract_key_concepts
extract_key_concepts(text, hash_order) ==
    Take(ListOfSet(KeyConceptSet(text), hash_order), 10)

\* _analyze_intent
analyze_intent(user_message) ==
    IF IsSubstring("?", Chars(user_message)) THEN "Seeking information or explanation"
    ELSE IF AnyKeyword({"help", "how", "guide"}, user_message)
         THEN "Requesting assistance or guidance"
    ELSE IF AnyKeyword({"analyze", "compare", "evaluate"}, user_message)
         THEN "Requesting analysis or evaluation"
    ELSE "General inquiry or discussion"

\* _analyze_context; the page and globe icons of the formatted fragments are
\* written "doc " and "web "
analyze_context(context) ==
    <<Plain(IF CharLen(context) > 1000 THEN "   - Rich context available with detailed information"
            ELSE IF CharLen(context) > 300 THEN "   - Moderate context available"
            ELSE "   - Limited context available")>>
    \o (IF IsSubstring("===", Chars(context))
        THEN <<Plain("   - Multiple information sources present")>> ELSE <<>>)
    \o (IF IsSubstring("doc ", Chars(context))
        THEN <<Plain("   - Document-based information available")>> ELSE <<>>)
    \o (IF IsSubstring("web ", Chars(context))
        THEN <<Plain("   - Web-based information available")>> ELSE <<>>)

\* _get_reasoning_strategy: three steps per category
get_reasoning_strategy(question_type) ==
    IF question_type = "analytical"
    THEN <<Plain("   1. Break down the problem into components"),
           Plain("   2. Analyze relationships and patterns"),
           Plain("   3. Synthesize insights and conclusions")>>
    ELSE IF question_type = "procedural"
    THEN <<Plain("   1. Identify the goal or outcome"),
           Plain("   2. Break down into sequential steps"),
           Plain("   3. Provide clear, actionable instructions")>>
    ELSE IF question_type = "creative"
    THEN <<Plain("   1. Generate multiple perspectives"),
           Plain("   2. Combine ideas in novel ways"),
           Plain("   3. Provide innovative solutions")>>
    ELSE IF question_type = "comparative"
    THEN <<Plain("   1. Identify comparison criteria"),
           Plain("   2. Analyze similarities and differences"),
           Plain("   3. Provide balanced evaluation")>>
    ELSE <<Plain("   1. Identify specific facts needed"),
           Plain("   2. Cross-reference available information"),
           Plain("   3. Provide accurate, verified information")>>

\* _get_information_strategy: three steps per category
get_information_strategy(question_type) ==
    IF question_type = "analytical"
    THEN <<Plain("   - Gather comprehensive background information"),
           Plain("   - Look for multiple perspectives"),
           Plain("   - Find relevant case studies or examples")>>
    ELSE IF question_type = "procedural"
    THEN <<Plain("   - Find step-by-step guides"),
           Plain("   - Look for best practices"),
           Plain("   - Search for common pitfalls to avoid")>>
    ELSE IF question_type = "creative"
    THEN <<Plain("   - Gather inspiration from various sources"),
           Plain("   - Look for innovative approaches"),
           Plain("   - Find diverse examples and ideas")>>
    ELSE IF question_type = "comparative"
    THEN <<Plain("   - Gather information on all items being compared"),
           Plain("   - Find standardized comparison criteria"),
           Plain("   - Look for expert evaluations")>>
    ELSE <<Plain("   - Search for authoritative sources"),
           Plain("   - Verify information accuracy"),
           Plain("   - Get the most current data")>>

ProblemAnalysis == "Problem Analysis:"
ContextAnalysis == "Context Analysis:"
ReasoningStrategy == "Reasoning Strategy for "
InformationSynthesis == "Information Synthesis:"

\* services/reasoning_service.py chain_of_thought_reasoning
chain_of_thought_reasoning(context, user_message, question_type, hash_order) ==
    LET qt == IF question_type = None THEN classify_question(user_message) ELSE question_type
        key_concepts == extract_key_concepts(user_message, hash_order)
    IN <<Plain(ProblemAnalysis),
         Plain("   - Question type: " \o qt),
         Line("   - Key concepts: ", Take(key_concepts, 5)),
         Plain("   - User intent: " \o analyze_intent(user_message))>>
       \o (IF Words(context) > 0
           THEN <<Plain(ContextAnalysis)>> \o analyze_context(context)
           ELSE <<>>)
       \o <<Plain(ReasoningStrategy \o qt \o " question:")>>
       \o get_reasoning_strategy(qt)
       \o <<Plain(InformationSynthesis),
            Plain("   - Combining context knowledge with question requirements"),
            Plain("   - Identifying gaps or areas needing clarification"),
            Plain("   - Structuring response for clarity and completeness")>>

InSeq(x, sq) == \E i \in 1..Len(sq) : sq[i] = x

\* any(word in message_lower for word in [...]) and "tool" in available_tools
Recommend(user_message, words, tool, available_tools) ==
    IF AnyKeyword(words, user_message) /\ InSeq(tool, available_tools) THEN <<tool>> ELSE <<>>

\* _recommend_tools
recommend_tools(user_message, available_tools) ==
    LET recommendations ==
            Recommend(user_message, {"current", "latest", "recent", "now", "today"},
                      "web_search", available_tools)
            \o Recommend(user_message, {"document", "file", "pdf", "text"},
                         "document_search", available_tools)
            \o Recommend(user_message, {"calculate", "compute", "math", "number"},
                         "calculation", available_tools)
    IN IF recommendations # <<>> THEN recommendations ELSE <<"web_search">>

DefaultTools == <<"web_search", "document_search", "analysis">>

\* Optional[List[str]]: a list of tool names, or None
ToolList(tools) == [given |-> TRUE, tools |-> tools]
NoToolList == [given |-> FALSE, tools |-> <<>>]
InformationGathering == "   Need to gather more information using: "

\* services/reasoning_service.py react_reasoning
react_reasoning(context, user_message, available_tools, hash_order) ==
    LET tools == IF available_tools.given THEN available_tools.tools ELSE DefaultTools
        question_type == classify_question(user_message)
        key_concepts == extract_key_concepts(user_message, hash_order)
    IN <<Plain("Thought 1: Problem Assessment"),
         Line("   The user is asking about: ", Take(key_concepts, 3)),
         Plain("   This appears to be a " \o question_type \o " question."),
         Plain("Action 1: Information Gathering"),
         Line(InformationGathering, recommend_tools(user_message, tools)),
         Plain("Thought 2: Information Strategy"),
         Plain("   Based on the question type, I should:")>>
       \o get_information_strategy(question_type)
       \o <<Plain("Action 2: Information Processing"),
            Plain("   - Analyzing available context and information"),
            Plain("   - Identifying key relationships and patterns"),
            Plain("   - Structuring information for comprehensive response"),
            Plain("Thought 3: Response Strategy"),
            Plain("   Now I can provide a comprehensive answer by:"),
            Plain("   - Using the processed information"),
            Plain("   - Addressing the specific question type"),
            Plain("   - Ensuring clarity and completeness")>>

\* services/reasoning_service.py hybrid_reasoning
hybrid_reasoning(context, user_message, available_tools, hash_order) ==
    LET question_type == classify_question(user_message)
        react_part == react_reasoning(context, user_message, available_tools, hash_order)
        cot_part == chain_of_thought_reasoning(context, user_message, question_type, hash_order)
    IN IF question_type \in {"factual", "procedural"}
       THEN <<Plain("HYBRID REASONING APPROACH"),
              Plain("Phase 1 - Information & Action Planning:")>>
            \o react_part
            \o <<Plain("Phase 2 - Analytical Reasoning:")>>
            \o cot_part
       ELSE <<Plain("HYBRID REASONING APPROACH"),
              Plain("Phase 1 - Analytical Reasoning:")>>
            \o cot_part
            \o <<Plain("Phase 2 - Action & Validation:")>>
            \o react_part

\* ------------------------------------------------------------------ state
VARIABLES
    request,              \* the ChatRequest of the turn
    messages,             \* the Message table, oldest first
    documents,            \* the Document table
    pc,                   \* where the turn (or the build_context call) stands
    response,             \* what chat_endpoint answered: a ChatResponse or HTTP 500
    context_result,       \* chat_endpoint: the bundle build_context returned
    prompt,               \* chat_endpoint: the composed prompt
    outcome,              \* what each provider's endpoint does when its body runs
    llm,                  \* the provider chain: calls, status, errors, ret
    bot_response,         \* chat_endpoint: the value of await get_llm_response(prompt)
    bot_message_content,  \* chat_endpoint: the text stored as the bot message
    llm_exc,              \* the exception chat_endpoint caught around the await
    caller,               \* who called build_context: "chat" or "direct"
    args,                 \* build_context: its arguments and the builder's fields
    context_parts,        \* build_context: the fragments gathered so far
    metadata,             \* build_context: the metadata dict
    combined_context,     \* _combine_context_parts: the list it joins
    final_context,        \* build_context: the merged text
    reasoning_output,     \* build_context: the narrative, or None
    reasoning_arg,        \* the context _apply_reasoning was given
    bc_exc,               \* build_context: the exception its except clause caught
    bundle,               \* build_context: the returned dict
    steps,                \* build_context: the steps executed, in order
    failed,               \* build_context: the gathering steps that failed
    trim,                 \* a call of trim_text_to_token_limit on its own
    web_call,             \* build_context: what the search endpoint did, and web_results
    reason                \* the reasoning engine: what it did in build_context, or its
                          \* inputs, hash order and results when called on its own

chatVars == <<request, response, context_result, prompt, bot_response, bot_message_content,
              llm_exc>>
llmVars == <<outcome, llm>>
dbVars == <<messages, documents>>
bcVars == <<caller, args, context_parts, metadata, combined_context, final_context,
            reasoning_output, reasoning_arg, bc_exc, bundle, steps, failed>>
vars == <<pc, chatVars, llmVars, dbVars, bcVars, trim, web_call, reason>>

\* No web search made.
NoWeb == [env |-> NoneRec, web_results |-> <<>>]

\* No call of a reasoning function on its own.
NoReason == [technique |-> None]

\* No call of the trimmer on its own.
NoTrim ==
    [text |-> EmptyText, max_tokens |-> 0, model_name |-> None, result |-> NoneText,
     exc |-> None]

NoChain == ChainState(<<>>, IdleStatus, <<>>, Returned(EmptyText))

\* The arguments of one build_context call, with the builder's fields
\* enable_reasoning and (lines 49-50) the effective reasoning type.
BuildArgs(sid, msg, web, docs, hist, maxh, reasoning, rtype) ==
    [session_id |-> sid, user_message |-> msg, include_web_search |-> web,
     include_documents |-> docs, include_conversation_history |-> hist,
     max_history_messages |-> maxh, enable_reasoning |-> reasoning,
     reasoning_type |-> rtype]

NoArgs == BuildArgs(ThisSession, EmptyText, FALSE, FALSE, FALSE, 0, FALSE, None)
NoMetadata == [sources_used |-> <<>>]

BcIdle ==
    /\ args = NoArgs
    /\ context_parts = <<>>
    /\ metadata = NoMetadata
    /\ combined_context = <<>>
    /\ final_context = EmptyText
    /\ reasoning_output = NoneText
    /\ reasoning_arg = NoneText
    /\ bc_exc = None
    /\ bundle = NoneRec
    /\ steps = <<>>
    /\ failed = {}

\* The locals of a build_context call that has returned.
BcReset ==
    /\ args' = NoArgs
    /\ context_parts' = <<>>
    /\ metadata' = NoMetadata
    /\ combined_context' = <<>>
    /\ final_context' = EmptyText
    /\ reasoning_output' = NoneText
    /\ reasoning_arg' = NoneText
    /\ bc_exc' = None
    /\ bundle' = NoneRec
    /\ web_call' = NoWeb
    /\ reason' = NoReason
    /\ steps' = <<>>
    /\ failed' = {}

\* A session whose stored conversation already fills the history window.
LongHistory ==
    [i \in 1..DefaultMaxHistory |->
        Message(ThisSession, IF i % 2 = 1 THEN "user" ELSE "bot", Txt("m" \o ToString(i)))]

InitDb ==
    /\ messages \in SeqsUpTo(StoredMessages, MaxInitMsgs) \cup {LongHistory}
    /\ documents \in SeqsUpTo(StoredDocuments, MaxDocs)

\* A chat turn: POST /session/chat arrives.
Init ==
    /\ request \in ChatRequests
    /\ InitDb
    /\ pc = "start"
    /\ response = NoneRec
    /\ context_result = NoneRec
    /\ prompt = <<>>
    /\ outcome = [p \in Providers |-> "ok"]
    /\ llm = NoChain
    /\ bot_response = NoneText
    /\ bot_message_content = NoneText
    /\ llm_exc = None
    /\ caller = "chat"
    /\ BcIdle
    /\ trim = NoTrim
    /\ web_call = NoWeb
    /\ reason = NoReason


\* ------------------------------------------------------------ build_context
AfterDocuments == IF args.include_web_search THEN "bc_web" ELSE "bc_merge"
AfterHistory == IF args.include_documents THEN "bc_documents" ELSE AfterDocuments
AfterStart == IF args.include_conversation_history THEN "bc_history" ELSE AfterHistory

\* A builder that runs the reasoning pass whatever its flag says
\* (sensitivity of the step order to the reasoning switch).
AfterMerge_always == "bc_reason"

\* Line 126: if self.enable_reasoning and reasoning_type
AfterMerge ==
    IF args.enable_reasoning /\ args.reasoning_type # None THEN "bc_reason" ELSE "bc_return"

\* Where control goes when build_context returns.
BcExit == IF caller = "chat" THEN "prompt" ELSE "bc_done"

\* context_parts.append(...) and metadata["sources_used"].append(...)
AddPart(type, content, priority) ==
    /\ context_parts' = Append(context_parts, Part(type, content, priority))
    /\ metadata' = [metadata EXCEPT !.sources_used = Append(@, type)]

AddPartCounted(type, content, priority, key, count) ==
    /\ context_parts' = Append(context_parts, Part(type, content, priority))
    /\ metadata' = [metadata EXCEPT !.sources_used = Append(@, type),
                                    !.search_results = (key :> count) @@ @]

\* Lines 48-66: the metadata dict, and the classification when reasoning is on.
BcStart ==
    /\ pc = "bc_start"
    /\ metadata' = [sources_used |-> <<>>,
                    search_results |-> <<>>,
                    reasoning_applied |-> args.enable_reasoning,
                    reasoning_type |-> args.reasoning_type,
                    question_type |-> IF args.enable_reasoning
                                      THEN classify_question(args.user_message)
                                      ELSE None]
    /\ steps' = IF args.enable_reasoning THEN <<"Classify">> ELSE <<>>
    /\ pc' = AfterStart
    /\ UNCHANGED <<chatVars, llmVars, dbVars, caller, args, context_parts, combined_context,
                   final_context, reasoning_output, reasoning_arg, bc_exc, bundle, failed>>
    /\ UNCHANGED trim
    /\ UNCHANGED web_call
    /\ UNCHANGED reason

\* Lines 69-80: conversation history.
GatherHistory ==
    /\ pc = "bc_history"
    /\ \E db_ok \in BOOLEAN :
         \E history_context \in
               {get_conversation_history(messages, args.session_id,
                                         args.max_history_messages, db_ok)} :
            /\ IF history_context # EmptyText
               THEN AddPart("conversation_history", history_context, 1)
               ELSE UNCHANGED <<context_parts, metadata>>
            /\ failed' = IF db_ok THEN failed ELSE failed \cup {"GatherHistory"}
    /\ steps' = Append(steps, "GatherHistory")
    /\ pc' = AfterHistory
    /\ UNCHANGED <<chatVars, llmVars, dbVars, caller, args, combined_context, final_context,
                   reasoning_output, reasoning_arg, bc_exc, bundle>>
    /\ UNCHANGED trim
    /\ UNCHANGED web_call
    /\ UNCHANGED reason

\* A document search whose failure is not caught by the adapter and ends the
\* build in the except clause (sensitivity of the per-step fault tolerance).
SearchDocuments_propagates ==
    /\ pc = "bc_documents"
    /\ \E env \in {"ok", "raise", "no_embedding"} :
         \E doc_results \in
               {search_documents(args.user_message, args.session_id, documents, env)} :
            /\ IF env = "raise"
               THEN /\ bc_exc' = "Document search failed"
                    /\ bundle' = [context |-> Cat(<<Blk("I'll help you with:", 4)>>,
                                                  args.user_message),
                                  reasoning |-> NoneText,
                                  metadata |-> [sources_used |-> <<>>, error |-> bc_exc'],
                                  user_message |-> args.user_message,
                                  question_type |-> None]
                    /\ steps' = steps \o <<"SearchDocuments", "Done">>
                    /\ pc' = BcExit
                    /\ UNCHANGED <<context_parts, metadata>>
               ELSE /\ IF doc_results # <<>>
                       THEN /\ AddPartCounted("documents",
                                              format_document_results(doc_results), 2,
                                              "documents", Len(doc_results))
                            /\ pc' = AfterDocuments
                       ELSE /\ UNCHANGED <<context_parts, metadata>>
                            /\ pc' = "bc_fallback"
                    /\ steps' = Append(steps, "SearchDocuments")
                    /\ UNCHANGED <<bc_exc, bundle>>
            /\ failed' = IF env = "ok" THEN failed ELSE failed \cup {"SearchDocuments"}
    /\ UNCHANGED <<chatVars, llmVars, dbVars, caller, args, combined_context, final_context,
                   reasoning_output, reasoning_arg>>
    /\ UNCHANGED trim
    /\ UNCHANGED web_call
    /\ UNCHANGED reason

\* A document search after which the fallback runs whatever was found
\* (sensitivity of the else branch).
SearchDocuments_then_fallback ==
    /\ pc = "bc_documents"
    /\ \E env \in {"ok", "raise", "no_embedding"} :
         \E doc_results \in
               {search_documents(args.user_message, args.session_id, documents, env)} :
            /\ IF doc_results # <<>>
               THEN AddPartCounted("documents", format_document_results(doc_results), 2,
                                   "documents", Len(doc_results))
               ELSE UNCHANGED <<context_parts, metadata>>
            /\ pc' = "bc_fallback"
            /\ failed' = IF env = "ok" THEN failed ELSE failed \cup {"SearchDocuments"}
    /\ steps' = Append(steps, "SearchDocuments")
    /\ UNCHANGED <<chatVars, llmVars, dbVars, caller, args, combined_context, final_context,
                   reasoning_output, reasoning_arg, bc_exc, bundle>>
    /\ UNCHANGED trim
    /\ UNCHANGED web_call
    /\ UNCHANGED reason

\* Lines 83-93: targeted document search.
SearchDocuments ==
    /\ pc = "bc_documents"
    /\ \E env \in {"ok", "raise", "no_embedding"} :
         \E doc_results \in
               {search_documents(args.user_message, args.session_id, documents, env)} :
            /\ IF doc_results # <<>>
               THEN /\ AddPartCounted("documents", format_document_results(doc_results), 2,
                                      "documents", Len(doc_results))
                    /\ pc' = AfterDocuments
               ELSE /\ UNCHANGED <<context_parts, metadata>>
                    /\ pc' = "bc_fallback"
            /\ failed' = IF env = "ok" THEN failed ELSE failed \cup {"SearchDocuments"}
    /\ steps' = Append(steps, "SearchDocuments")
    /\ UNCHANGED <<chatVars, llmVars, dbVars, caller, args, combined_context, final_context,
                   reasoning_output, reasoning_arg, bc_exc, bundle>>
    /\ UNCHANGED trim
    /\ UNCHANGED web_call
    /\ UNCHANGED reason

\* Lines 94-103: the general documents of the session, when the search found
\* nothing.
FallbackGeneralDocuments ==
    /\ pc = "bc_fallback"
    /\ \E db_ok \in BOOLEAN :
         \E general_docs \in
               {get_all_documents_for_context(documents, args.session_id, MaxGeneralDocs,
                                              db_ok)} :
            /\ IF general_docs # EmptyText
               THEN AddPart("general_documents", general_docs, 4)
               ELSE UNCHANGED <<context_parts, metadata>>
            /\ failed' = IF db_ok THEN failed ELSE failed \cup {"FallbackGeneralDocuments"}
    /\ steps' = Append(steps, "FallbackGeneralDocuments")
    /\ pc' = AfterDocuments
    /\ UNCHANGED <<chatVars, llmVars, dbVars, caller, args, combined_context, final_context,
                   reasoning_output, reasoning_arg, bc_exc, bundle>>
    /\ UNCHANGED trim
    /\ UNCHANGED web_call
    /\ UNCHANGED reason

\* Lines 106-116: web search.
WebSearch ==
    /\ pc = "bc_web"
    /\ \E env \in WebEnvs :
         \E web_results \in {search_web(args.user_message, WebNumResults, env)} :
            /\ IF web_results # <<>> /\ AnyAvailable(web_results)
               THEN AddPartCounted("web_search", format_web_results(web_results), 3,
                                   "web", Len(web_results))
               ELSE UNCHANGED <<context_parts, metadata>>
            /\ failed' = IF env.kind = "ok" THEN failed ELSE failed \cup {"WebSearch"}
            /\ web_call' = [env |-> env, web_results |-> web_results]
    /\ steps' = Append(steps, "WebSearch")
    /\ pc' = "bc_merge"
    /\ UNCHANGED <<chatVars, llmVars, dbVars, caller, args, combined_context, final_context,
                   reasoning_output, reasoning_arg, bc_exc, bundle>>
    /\ UNCHANGED trim
    /\ UNCHANGED reason

\* An except clause that answers with the sources gathered so far
\* (sensitivity of the degraded bundle's empty sources_used).
degraded_bundle_keeps_sources(user_message, e) ==
    [context |-> Cat(<<Blk("I'll help you with:", 4)>>, user_message),
     reasoning |-> NoneText,
     metadata |-> [sources_used |-> metadata.sources_used, error |-> e],
     user_message |-> user_message,
     question_type |-> None]

\* The except clause of build_context, lines 149-157.
degraded_bundle(user_message, e) ==
    [context |-> Cat(<<Blk("I'll help you with:", 4)>>, user_message),
     reasoning |-> NoneText,
     metadata |-> [sources_used |-> <<>>, error |-> e],
     user_message |-> user_message,
     question_type |-> None]

\* Lines 119-122: the merge. context_parts is sorted in place. When the
\* trimmer raises, control is in the except clause and the degraded bundle
\* is returned.
MergeTrim ==
    /\ pc = "bc_merge"
    /\ \E tiktoken_ok \in
            (IF TrimmerCalled(SortByPriority(context_parts), Est10(args.user_message))
             THEN BOOLEAN ELSE {TRUE}) :
         \E r \in {combine_context_parts(context_parts, args.user_message, tiktoken_ok)} :
            IF r.raised
            THEN /\ bc_exc' = "tiktoken error"
                 /\ bundle' = degraded_bundle(args.user_message, bc_exc')
                 /\ steps' = steps \o <<"Merge&Trim", "Done">>
                 /\ pc' = BcExit
                 /\ UNCHANGED <<combined_context, final_context>>
            ELSE /\ combined_context' = r.combined
                 /\ final_context' = Join(r.combined)
                 /\ steps' = Append(steps, "Merge&Trim")
                 /\ pc' = AfterMerge
                 /\ UNCHANGED <<bc_exc, bundle>>
    /\ context_parts' = SortByPriority(context_parts)
    /\ UNCHANGED <<chatVars, llmVars, dbVars, caller, args, metadata, reasoning_output,
                   reasoning_arg, failed>>
    /\ UNCHANGED trim
    /\ UNCHANGED web_call
    /\ UNCHANGED reason

\* A reasoning pass whose failure is not caught by _apply_reasoning and ends
\* the build in the except clause (sensitivity of the inner try).
ApplyReasoning_propagates ==
    /\ pc = "bc_reason"
    /\ reasoning_arg' = final_context
    /\ \E engine \in Engines :
         /\ reason' = [technique |-> args.reasoning_type, engine |-> engine]
         /\ IF engine = "raise"
            THEN /\ bc_exc' = "engine failure"
                 /\ bundle' = degraded_bundle(args.user_message, bc_exc')
                 /\ steps' = steps \o <<"ApplyReasoning", "Done">>
                 /\ pc' = BcExit
                 /\ UNCHANGED <<reasoning_output, metadata>>
            ELSE /\ reasoning_output' = apply_reasoning(final_context, args.user_message,
                                                        args.reasoning_type,
                                                        metadata.question_type, engine)
                 /\ metadata' = [reasoning_output |-> "Applied",
                                 reasoning_text |-> reasoning_output'] @@ metadata
                 /\ steps' = Append(steps, "ApplyReasoning")
                 /\ pc' = "bc_return"
                 /\ UNCHANGED <<bc_exc, bundle>>
    /\ UNCHANGED <<chatVars, llmVars, dbVars, caller, args, context_parts, combined_context,
                   final_context, failed>>
    /\ UNCHANGED trim
    /\ UNCHANGED web_call

\* Lines 125-132: the reasoning pass over the merged text; reason records
\* what the engine did.
ApplyReasoning ==
    /\ pc = "bc_reason"
    /\ reasoning_arg' = final_context
    /\ \E engine \in Engines :
         /\ reason' = [technique |-> args.reasoning_type, engine |-> engine]
         /\ reasoning_output' = apply_reasoning(final_context, args.user_message,
                                                args.reasoning_type, metadata.question_type,
                                                engine)
    /\ metadata' = [reasoning_output |-> "Applied", reasoning_text |-> reasoning_output']
                   @@ metadata
    /\ steps' = Append(steps, "ApplyReasoning")
    /\ pc' = "bc_return"
    /\ UNCHANGED <<chatVars, llmVars, dbVars, caller, args, context_parts, combined_context,
                   final_context, bc_exc, bundle, failed>>
    /\ UNCHANGED trim
    /\ UNCHANGED web_call

\* Lines 141-147: the returned bundle.
BcReturn ==
    /\ pc = "bc_return"
    /\ bundle' = [context |-> final_context,
                  reasoning |-> reasoning_output,
                  metadata |-> metadata,
                  user_message |-> args.user_message,
                  question_type |-> metadata.question_type]
    /\ steps' = Append(steps, "Done")
    /\ pc' = BcExit
    /\ UNCHANGED <<chatVars, llmVars, dbVars, caller, args, context_parts, metadata,
                   combined_context, final_context, reasoning_output, reasoning_arg, bc_exc,
                   failed>>
    /\ UNCHANGED trim
    /\ UNCHANGED web_call
    /\ UNCHANGED reason

BuildContextNext ==
    \/ BcStart
    \/ GatherHistory
    \/ SearchDocuments
    \/ FallbackGeneralDocuments
    \/ WebSearch
    \/ MergeTrim
    \/ ApplyReasoning
    \/ BcReturn

\* ContextBuilder.build_context called on its own, with any flags.
CtxArgs ==
    {BuildArgs(ThisSession, m, web, docs, hist, DefaultMaxHistory, r[1], r[2]) :
       m \in {MsgHello, MsgBig}, web \in BOOLEAN, docs \in BOOLEAN, hist \in BOOLEAN,
       r \in {<<FALSE, "hybrid">>, <<TRUE, None>>} \cup ({TRUE} \X ReasoningTypes)}

CtxInit ==
    /\ request = NoneRec
    /\ InitDb
    /\ pc = "bc_start"
    /\ response = NoneRec
    /\ context_result = NoneRec
    /\ prompt = <<>>
    /\ outcome = [p \in Providers |-> "ok"]
    /\ llm = NoChain
    /\ bot_response = NoneText
    /\ bot_message_content = NoneText
    /\ llm_exc = None
    /\ caller = "direct"
    /\ args \in CtxArgs
    /\ context_parts = <<>>
    /\ metadata = NoMetadata
    /\ combined_context = <<>>
    /\ final_context = EmptyText
    /\ reasoning_output = NoneText
    /\ reasoning_arg = NoneText
    /\ bc_exc = None
    /\ bundle = NoneRec
    /\ steps = <<>>
    /\ failed = {}
    /\ trim = NoTrim
    /\ web_call = NoWeb
    /\ reason = NoReason

CtxSpec == CtxInit /\ [][BuildContextNext]_vars


\* ------------------------------------------------------------ prompt
PromptBlock(label, text) == [label |-> label, text |-> text]

\* context and context.strip()
NonBlank(t) == Words(t) > 0

\* ---- services/feedback_analysis.py
\* content.lower().split(), run by run
LowerWords(content) == [i \in 1..Len(content) |-> Blk(lower(content[i].w), content[i].n)]

\* The words of the selected messages, in the order the loops visit them.
RECURSIVE WordsOf(_)
WordsOf(selected) ==
    IF selected = <<>> THEN <<>>
    ELSE LowerWords(Head(selected).content) \o WordsOf(Tail(selected))

\* patterns[word] after the loops: patterns.get(word, 0) + 1 at each occurrence
RECURSIVE CountOf(_, _)
CountOf(word, runs) ==
    IF runs = <<>> THEN 0
    ELSE (IF Head(runs).w = word THEN Head(runs).n ELSE 0) + CountOf(word, Tail(runs))

\* The keys of the dict, in the order of their insertion.
RECURSIVE KeysOf(_, _)
KeysOf(runs, seen) ==
    IF runs = <<>> THEN <<>>
    ELSE IF Head(runs).n = 0 \/ Head(runs).w \in seen THEN KeysOf(Tail(runs), seen)
    ELSE <<Head(runs).w>> \o KeysOf(Tail(runs), seen \cup {Head(runs).w})

\* sorted(patterns.items(), key=lambda x: x[1], reverse=True): by count,
\* largest first, items of equal count in the order they had.
RECURSIVE InsertByCount(_, _)
InsertByCount(item, sorted) ==
    IF sorted = <<>> THEN <<item>>
    ELSE IF Head(sorted).count < item.count THEN <<item>> \o sorted
    ELSE <<Head(sorted)>> \o InsertByCount(item, Tail(sorted))

RECURSIVE SortByCount(_)
SortByCount(items) ==
    IF items = <<>> THEN <<>>
    ELSE InsertByCount(items[Len(items)], SortByCount(SubSeq(items, 1, Len(items) - 1)))

Patterns(selected) ==
    LET runs == WordsOf(selected)
        keys == KeysOf(runs, {})
    IN SortByCount([i \in 1..Len(keys) |-> [word |-> keys[i], count |-> CountOf(keys[i], runs)]])

IsThumbsDown(message) == message.thumbs_down
IsThumbsUp(message) == message.thumbs_up

\* analyze_feedback(db): over the messages of all sessions
analyze_feedback(db) ==
    [thumbs_down |-> Patterns(SelectSeq(db, IsThumbsDown)),
     thumbs_up |-> Patterns(SelectSeq(db, IsThumbsUp))]

\* ---- services/context_service.py build_prompt
\* A list of phrases that surfaces a word from two occurrences on
\* (sensitivity of the threshold).
FrequentWords_from_two(patterns) ==
    LET IsFrequent(item) == item.count >= 2
        frequent == SelectSeq(patterns, IsFrequent)
    IN [i \in 1..Len(frequent) |-> frequent[i].word]

\* [word for word, count in patterns if count > 2]
FrequentWords(patterns) ==
    LET IsFrequent(item) == item.count > 2
        frequent == SelectSeq(patterns, IsFrequent)
    IN [i \in 1..Len(frequent) |-> frequent[i].word]

\* ", ".join(phrases), as a text
Phrases(words) == [i \in 1..Len(words) |-> Blk(words[i], 1)]

AvoidLabel == "(Note: Avoid using the following phrases:"
EncourageLabel == "(Note: Consider using the following phrases:"

\* A composer that puts the encourage note before the avoid note
\* (sensitivity of the order of the blocks).
build_prompt_encourage_first(context, user_message, db, reasoning) ==
    LET feedback_patterns == analyze_feedback(db)
        avoid_phrases == FrequentWords(feedback_patterns.thumbs_down)
        encourage_phrases == FrequentWords(feedback_patterns.thumbs_up)
    IN <<PromptBlock("SYSTEM", Txt("system_prompt"))>>
       \o (IF NonBlank(context) THEN <<PromptBlock("CONTEXT:", context)>> ELSE <<>>)
       \o (IF NonBlank(reasoning)
           THEN <<PromptBlock("REASONING ANALYSIS:", reasoning)>> ELSE <<>>)
       \o <<PromptBlock("USER MESSAGE:", user_message)>>
       \o (IF encourage_phrases # <<>>
           THEN <<PromptBlock(EncourageLabel, Phrases(encourage_phrases))>> ELSE <<>>)
       \o (IF avoid_phrases # <<>>
           THEN <<PromptBlock(AvoidLabel, Phrases(avoid_phrases))>> ELSE <<>>)
       \o <<PromptBlock("RESPONSE:", EmptyText)>>

\* build_prompt(context, user_message, db=db, reasoning_output=...): the
\* blocks of the prompt, which "\n\n".join puts one after the other.
build_prompt(context, user_message, db, reasoning) ==
    LET feedback_patterns == analyze_feedback(db)
        avoid_phrases == FrequentWords(feedback_patterns.thumbs_down)
        encourage_phrases == FrequentWords(feedback_patterns.thumbs_up)
    IN <<PromptBlock("SYSTEM", Txt("system_prompt"))>>
       \o (IF NonBlank(context) THEN <<PromptBlock("CONTEXT:", context)>> ELSE <<>>)
       \o (IF NonBlank(reasoning)
           THEN <<PromptBlock("REASONING ANALYSIS:", reasoning)>> ELSE <<>>)
       \o <<PromptBlock("USER MESSAGE:", user_message)>>
       \o (IF avoid_phrases # <<>>
           THEN <<PromptBlock(AvoidLabel, Phrases(avoid_phrases))>> ELSE <<>>)
       \o (IF encourage_phrases # <<>>
           THEN <<PromptBlock(EncourageLabel, Phrases(encourage_phrases))>> ELSE <<>>)
       \o <<PromptBlock("RESPONSE:", EmptyText)>>

\* ------------------------------------------------------------ chat_endpoint
Http500 == [kind |-> "HTTP500"]
ChatResponse(text, sid) ==
    [kind |-> "ChatResponse", success |-> TRUE, response |-> text, session_id |-> sid]

SummaryChars == 4000
MinSentenceWords == 4

\* generate_simple_paragraph_summary on a text of one sentence
generate_simple_paragraph_summary(text) ==
    IF Words(text) >= MinSentenceWords
    THEN Cat(Txt("Summary:"), text)
    ELSE <<Blk("No meaningful content available for summary.", 6)>>

\* generate_summary(message, format="paragraph") inside the running event
\* loop of chat_endpoint: loop.run_until_complete raises there, whatever
\* get_llm_response returned, and the except clause falls back to the simple
\* summary.
generate_summary(text) == generate_simple_paragraph_summary(CutChars(text, SummaryChars))

\* A handler that does not persist the user message before it builds the
\* context (sensitivity of the commit before the history query).
StoreUserMessage_unsaved ==
    /\ pc = "start"
    /\ request' = IF request.enable_reasoning /\ request.reasoning_type = None
                  THEN [request EXCEPT !.reasoning_type = "hybrid"]
                  ELSE request
    /\ pc' = IF Contains(request.message, "summarize") THEN "summarize" ELSE "build"
    /\ UNCHANGED <<response, context_result, prompt, bot_response, bot_message_content,
                   llm_exc, llmVars, messages, documents, bcVars>>
    /\ UNCHANGED trim
    /\ UNCHANGED web_call
    /\ UNCHANGED reason

\* chat.py lines 69-87: default the reasoning type, persist the user message.
StoreUserMessage ==
    /\ pc = "start"
    /\ request' = IF request.enable_reasoning /\ request.reasoning_type = None
                  THEN [request EXCEPT !.reasoning_type = "hybrid"]
                  ELSE request
    /\ messages' = Append(messages, Message(request.session_id, "user", request.message))
    /\ pc' = IF Contains(request.message, "summarize") THEN "summarize" ELSE "build"
    /\ UNCHANGED <<response, context_result, prompt, bot_response, bot_message_content,
                   llm_exc, llmVars, documents, bcVars>>
    /\ UNCHANGED trim
    /\ UNCHANGED web_call
    /\ UNCHANGED reason

\* chat.py lines 88-103: the summary (whose helper calls get_llm_response and
\* drops what it returns) is persisted as the bot message.
SummarizeReply ==
    /\ pc = "summarize"
    /\ \E oc \in OutcomeAssignments :
         /\ outcome' = oc
         /\ llm' = get_llm_response(oc)
    /\ bot_message_content' = generate_summary(request.message)
    /\ messages' = Append(messages, Message(request.session_id, "bot", bot_message_content'))
    /\ pc' = "summarize_embed"
    /\ UNCHANGED <<request, response, context_result, prompt, bot_response, llm_exc,
                   documents, bcVars>>
    /\ UNCHANGED trim
    /\ UNCHANGED web_call
    /\ UNCHANGED reason

\* chat.py lines 105-120: store_embedding is called with (id, vector, db) for
\* its parameters (db, session_id, text) and raises whenever it is called.
SummarizeEmbed ==
    /\ pc = "summarize_embed"
    /\ \E embedding_vector_ok \in BOOLEAN :
         response' = IF embedding_vector_ok THEN Http500
                     ELSE ChatResponse(bot_message_content, request.session_id)
    /\ pc' = "done"
    /\ UNCHANGED <<request, context_result, prompt, bot_response, bot_message_content,
                   llm_exc, llmVars, dbVars, bcVars>>
    /\ UNCHANGED trim
    /\ UNCHANGED web_call
    /\ UNCHANGED reason

\* chat.py lines 122-140: with reasoning, build_context_with_reasoning (all
\* sources on, ten history messages); without, the argument list reads
\* request.enable_insights, which ChatRequest does not have.
BuildContextCall ==
    /\ pc = "build"
    /\ IF request.enable_reasoning
       THEN /\ args' = BuildArgs(request.session_id, request.message, TRUE, TRUE, TRUE,
                                 DefaultMaxHistory, TRUE, request.reasoning_type)
            /\ pc' = "bc_start"
            /\ UNCHANGED response
       ELSE /\ response' = Http500
            /\ pc' = "done"
            /\ UNCHANGED args
    /\ UNCHANGED <<request, context_result, prompt, bot_response, bot_message_content,
                   llm_exc, llmVars, dbVars, caller, context_parts, metadata,
                   combined_context, final_context, reasoning_output, reasoning_arg,
                   bc_exc, bundle, steps, failed>>
    /\ UNCHANGED trim
    /\ UNCHANGED web_call
    /\ UNCHANGED reason

\* chat.py lines 146-153; build_context has returned and its locals are gone.
BuildPrompt ==
    /\ pc = "prompt"
    /\ context_result' = bundle
    /\ prompt' = build_prompt(bundle.context, request.message, messages, bundle.reasoning)
    /\ pc' = "llm_call"
    /\ BcReset
    /\ UNCHANGED <<request, response, bot_response, bot_message_content, llm_exc,
                   llmVars, dbVars, caller>>
    /\ UNCHANGED trim

\* chat.py line 158, await get_llm_response(prompt): the call runs to its
\* return, then the returned value is awaited. A coroutine starts to run; a
\* str is not awaitable and the await raises TypeError, which the except
\* clause of lines 167-173 turns into the fixed apology.
CallLlm ==
    /\ pc = "llm_call"
    /\ \E oc \in OutcomeAssignments :
         LET chain == get_llm_response(oc)
         IN /\ outcome' = oc
            /\ IF chain.ret.kind = "coroutine"
               THEN /\ llm' = [chain EXCEPT !.status[chain.ret.of] = "inflight"]
                    /\ pc' = "awaiting"
                    /\ UNCHANGED <<llm_exc, bot_message_content>>
               ELSE /\ llm' = chain
                    /\ llm_exc' = "TypeError: object str can't be used in 'await' expression"
                    /\ bot_message_content' = GenericApology
                    /\ pc' = "store_bot"
    /\ UNCHANGED <<request, response, context_result, prompt, bot_response, dbVars, bcVars>>
    /\ UNCHANGED trim
    /\ UNCHANGED web_call
    /\ UNCHANGED reason

\* chat.py lines 158-173: the awaited coroutine ends; its text is the bot
\* message, its exception is caught and replaced by the fixed apology.
CoroutineDone ==
    /\ pc = "awaiting"
    /\ ProviderBody(llm.ret.of, outcome[llm.ret.of]).kind # "pending"
    /\ LET p == llm.ret.of
           r == ProviderBody(p, outcome[p])
       IN IF r.kind = "text"
          THEN /\ llm' = [llm EXCEPT !.status[p] = "success"]
               /\ bot_response' = r.text
               /\ bot_message_content' = r.text
               /\ UNCHANGED llm_exc
          ELSE /\ llm' = [llm EXCEPT !.status[p] = "failed"]
               /\ llm_exc' = r.text[1].w
               /\ bot_message_content' = GenericApology
               /\ UNCHANGED bot_response
    /\ pc' = "store_bot"
    /\ UNCHANGED <<request, response, context_result, prompt, outcome, dbVars, bcVars>>
    /\ UNCHANGED trim
    /\ UNCHANGED web_call
    /\ UNCHANGED reason

\* chat.py lines 175-187: the bot message is persisted; the next statement
\* reads request.enable_insights, which ChatRequest does not have, and the
\* handler's except clause answers HTTP 500.
StoreBotMessage ==
    /\ pc = "store_bot"
    /\ messages' = Append(messages, Message(request.session_id, "bot", bot_message_content))
    /\ response' = Http500
    /\ pc' = "done"
    /\ UNCHANGED <<request, context_result, prompt, bot_response, bot_message_content,
                   llm_exc, llmVars, documents, bcVars>>
    /\ UNCHANGED trim
    /\ UNCHANGED web_call
    /\ UNCHANGED reason

Next ==
    \/ StoreUserMessage
    \/ SummarizeReply
    \/ SummarizeEmbed
    \/ BuildContextCall
    \/ BuildContextNext
    \/ BuildPrompt
    \/ CallLlm
    \/ CoroutineDone
    \/ StoreBotMessage

Spec == Init /\ [][Next]_vars


\* The chat turn under the scheduling of the event loop: the awaited
\* coroutine runs, and ends when it can end.
FairSpec == Spec /\ WF_vars(CoroutineDone)

\* build_context under the scheduling of one coroutine: a step that can be
\* taken is taken.
CtxFairSpec == CtxSpec /\ WF_vars(BuildContextNext)

\* ------------------------------------------------------------ the merge alone
\* Fragments handed to _combine_context_parts, as build_context forms them.
HistoryFragments ==
    {Part("conversation_history",
          get_conversation_history(h, ThisSession, DefaultMaxHistory, TRUE), 1) :
        h \in {<<Message(ThisSession, "user", m)>> : m \in {MsgHello, MsgMid, MsgBig}}
               \cup {<<Message(ThisSession, "user", MsgBig),
                       Message(ThisSession, "bot", MsgBig)>>}}
Fragments ==
    HistoryFragments
    \cup {Part("documents",
               <<Blk("=== RELEVANT DOCUMENTS ===", 4),
                 Blk("doc_info report.pdf", 6), Blk("inflation", SnippetWords),
                 Blk("doc_info notes.pdf", 6), Blk("recipes", SnippetWords),
                 Blk("doc_info plan.pdf", 6), Blk("inflation", SnippetWords)>>, 2),
          Part("web_search", <<Blk("**title**", 1), Blk("snippet", 8)>>, 3),
          Part("web_search", <<Blk("**title**", 1), Blk("snippet", BigWords)>>, 3),
          Part("general_documents", <<Blk("Document: report.pdf", 2), Blk("inflation", 20)>>, 4)}

\* Sets of fragments of distinct kinds, and the lists that hold one of them
\* in any order.
FragmentSets == {S \in SUBSET Fragments : \A a, b \in S : a.type = b.type => a = b}
Perms(S) == {sq \in [1..Cardinality(S) -> S] : \A i, j \in 1..Cardinality(S) : i # j => sq[i] # sq[j]}
FragmentLists == UNION {Perms(S) : S \in FragmentSets}

CombineInit ==
    /\ request = NoneRec
    /\ messages = <<>>
    /\ documents = <<>>
    /\ pc = "combine"
    /\ response = NoneRec
    /\ context_result = NoneRec
    /\ prompt = <<>>
    /\ outcome = [p \in Providers |-> "ok"]
    /\ llm = NoChain
    /\ bot_response = NoneText
    /\ bot_message_content = NoneText
    /\ llm_exc = None
    /\ caller = "direct"
    /\ \E m \in {MsgHello, MsgBig, MsgHuge} :
         args = BuildArgs(ThisSession, m, TRUE, TRUE, TRUE, DefaultMaxHistory, FALSE, None)
    /\ context_parts \in FragmentLists
    /\ metadata = [sources_used |-> [i \in 1..Len(context_parts) |-> context_parts[i].type]]
    /\ combined_context = <<>>
    /\ final_context = EmptyText
    /\ reasoning_output = NoneText
    /\ reasoning_arg = NoneText
    /\ bc_exc = None
    /\ bundle = NoneRec
    /\ steps = <<>>
    /\ failed = {}
    /\ trim = NoTrim
    /\ web_call = NoWeb
    /\ reason = NoReason

\* One call of _combine_context_parts(context_parts, user_message).
CombineCall ==
    /\ pc = "combine"
    /\ \E tiktoken_ok \in
            (IF TrimmerCalled(SortByPriority(context_parts), Est10(args.user_message))
             THEN BOOLEAN ELSE {TRUE}) :
         \E r \in {combine_context_parts(context_parts, args.user_message, tiktoken_ok)} :
            /\ bc_exc' = IF r.raised THEN "tiktoken error" ELSE None
            /\ combined_context' = r.combined
            /\ final_context' = IF r.raised THEN EmptyText ELSE Join(r.combined)
    /\ context_parts' = SortByPriority(context_parts)
    /\ pc' = "combined"
    /\ UNCHANGED <<chatVars, llmVars, dbVars, caller, args, metadata, reasoning_output,
                   reasoning_arg, bundle, steps, failed>>
    /\ UNCHANGED trim
    /\ UNCHANGED web_call
    /\ UNCHANGED reason

CombineSpec == CombineInit /\ [][CombineCall]_vars

\* ------------------------------------------------------- the classifier alone
\* Messages of up to two words, in either case, some with a keyword inside a
\* longer word, some with keywords of two categories.
ClassifyWords ==
    {"WHY", "show", "how", "to", "Guide", "design", "versus", "compare", "inflation"}
ClassifyMessages ==
    {EmptyText,
     <<Blk("What", 1), Blk("is", 1), Blk("the", 1), Blk("latest", 1), Blk("news", 1),
       Blk("on", 1), Blk("inflation?", 1)>>}
    \cup {Txt(a) : a \in ClassifyWords}
    \cup {Norm(<<Blk(a, 1), Blk(b, 1)>>) : a, b \in ClassifyWords}

ClassifyInit ==
    /\ request = NoneRec
    /\ messages = <<>>
    /\ documents = <<>>
    /\ pc = "classify"
    /\ response = NoneRec
    /\ context_result = NoneRec
    /\ prompt = <<>>
    /\ outcome = [p \in Providers |-> "ok"]
    /\ llm = NoChain
    /\ bot_response = NoneText
    /\ bot_message_content = NoneText
    /\ llm_exc = None
    /\ caller = "direct"
    /\ \E m \in ClassifyMessages :
         args = BuildArgs(ThisSession, m, TRUE, TRUE, TRUE, DefaultMaxHistory, TRUE, "hybrid")
    /\ context_parts = <<>>
    /\ metadata = NoMetadata
    /\ combined_context = <<>>
    /\ final_context = EmptyText
    /\ reasoning_output = NoneText
    /\ reasoning_arg = NoneText
    /\ bc_exc = None
    /\ bundle = NoneRec
    /\ steps = <<>>
    /\ failed = {}
    /\ trim = NoTrim
    /\ web_call = NoWeb
    /\ reason = NoReason

\* One call of classify_question(user_message).
ClassifyCall ==
    /\ pc = "classify"
    /\ metadata' = [sources_used |-> <<>>, question_type |-> classify_question(args.user_message)]
    /\ pc' = "classified"
    /\ UNCHANGED <<chatVars, llmVars, dbVars, caller, args, context_parts, combined_context,
                   final_context, reasoning_output, reasoning_arg, bc_exc, bundle, steps,
                   failed>>
    /\ UNCHANGED trim
    /\ UNCHANGED web_call
    /\ UNCHANGED reason

ClassifySpec == ClassifyInit /\ [][ClassifyCall]_vars

\* --------------------------------------------------- the prompt composer alone
\* Messages with and without feedback, of either session, in either case.
FeedbackMessages ==
    {Rated(Message(ThisSession, "bot", <<Blk("bad", 1), Blk("answer", 1)>>), FALSE, TRUE),
     Rated(Message(2, "bot", <<Blk("Bad", 1), Blk("format", 1)>>), FALSE, TRUE),
     Rated(Message(ThisSession, "bot", Txt("bad")), FALSE, TRUE),
     Rated(Message(ThisSession, "bot", <<Blk("good", 2)>>), TRUE, FALSE),
     Rated(Message(2, "bot", Txt("Good")), TRUE, FALSE),
     Rated(Message(ThisSession, "bot", <<Blk("wrong", 3)>>), FALSE, TRUE),
     Message(ThisSession, "bot", <<Blk("nice", 3)>>)}

PromptInit ==
    /\ request = NoneRec
    /\ messages \in SeqsUpTo(FeedbackMessages, MaxFeedbackMsgs)
    /\ documents = <<>>
    /\ pc = "prompt_call"
    /\ response = NoneRec
    /\ context_result = NoneRec
    /\ prompt = <<>>
    /\ outcome = [p \in Providers |-> "ok"]
    /\ llm = NoChain
    /\ bot_response = NoneText
    /\ bot_message_content = NoneText
    /\ llm_exc = None
    /\ caller = "direct"
    /\ args = NoArgs
    /\ context_parts = <<>>
    /\ metadata = NoMetadata
    /\ combined_context = <<>>
    /\ final_context = EmptyText
    /\ reasoning_output = NoneText
    /\ reasoning_arg = NoneText
    /\ bc_exc = None
    /\ \E context \in {EmptyText, Txt("context")}, reasoning \in {NoneText, Txt("analysis")} :
         bundle = [context |-> context, reasoning |-> reasoning, user_message |-> MsgHello]
    /\ steps = <<>>
    /\ failed = {}
    /\ trim = NoTrim
    /\ web_call = NoWeb
    /\ reason = NoReason

\* One call of build_prompt(context, user_message, db=db, reasoning_output=...).
PromptCall ==
    /\ pc = "prompt_call"
    /\ prompt' = build_prompt(bundle.context, bundle.user_message, messages, bundle.reasoning)
    /\ pc' = "prompted"
    /\ UNCHANGED <<request, response, context_result, bot_response, bot_message_content,
                   llm_exc, llmVars, dbVars, caller, bcVars>>
    /\ UNCHANGED trim
    /\ UNCHANGED web_call
    /\ UNCHANGED reason

PromptSpec == PromptInit /\ [][PromptCall]_vars

\* ---------------------------------------------------------- the trimmer alone
MaxTrimBlocks == 2
MaxBudget == 7

\* Texts of one-token words, of a word of two tokens and of a character of
\* three tokens; any budget that cuts them, and none; model names tiktoken
\* knows and one it does not know.
TrimBlocks == {Blk(w, k) : w \in {"alpha", "recipes", "U+13000"}, k \in 1..2}
TrimTexts == {Norm(sq) : sq \in SeqsUpTo(TrimBlocks, MaxTrimBlocks)}
ModelNames == {"gpt-4o", "my-local-model"}

TrimInit ==
    /\ request = NoneRec
    /\ messages = <<>>
    /\ documents = <<>>
    /\ pc = "trim_call"
    /\ response = NoneRec
    /\ context_result = NoneRec
    /\ prompt = <<>>
    /\ outcome = [p \in Providers |-> "ok"]
    /\ llm = NoChain
    /\ bot_response = NoneText
    /\ bot_message_content = NoneText
    /\ llm_exc = None
    /\ caller = "direct"
    /\ BcIdle
    /\ web_call = NoWeb
    /\ reason = NoReason
    /\ \E text \in TrimTexts, max_tokens \in 0..MaxBudget, model_name \in ModelNames :
         trim = [NoTrim EXCEPT !.text = text, !.max_tokens = max_tokens,
                               !.model_name = model_name]

\* One call of trim_text_to_token_limit(text, max_tokens, model_name): line 4
\* raises or gives the encoding, lines 5-10 trim with it.
TrimCall ==
    /\ pc = "trim_call"
    /\ trim' = IF encoding_for_model(trim.model_name)
               THEN [trim EXCEPT !.result = trim_text_to_token_limit(trim.text, trim.max_tokens)]
               ELSE [trim EXCEPT !.exc = "KeyError"]
    /\ pc' = "trimmed"
    /\ UNCHANGED <<chatVars, llmVars, dbVars, bcVars>>
    /\ UNCHANGED web_call
    /\ UNCHANGED reason

TrimSpec == TrimInit /\ [][TrimCall]_vars

\* ================================================================= properties
\* ------------------------------------------------------------ provider chain
CalledProviders == {llm.calls[i] : i \in 1..Len(llm.calls)}

\* The order in which the chain is to try its providers.
ProviderOrder == <<"OpenAI", "Groq", "NGU">>

\* C1: when the attempt on the provider at position k succeeds, no provider
\* after position k has been called and the caller of the chain holds that
\* provider's text.
C1_FirstSuccessWins ==
    \A k \in 1..Len(ProviderOrder) :
        llm.status[ProviderOrder[k]] = "success" =>
            /\ \A j \in (k + 1)..Len(ProviderOrder) : ProviderOrder[j] \notin CalledProviders
            /\ bot_response = ReplyText(ProviderOrder[k])

\* The attempt on OpenAI has succeeded and the turn has taken its text.
C1_Witness ==
    /\ llm.status["OpenAI"] = "success"
    /\ llm.calls = <<"OpenAI">>
    /\ bot_message_content = ReplyText("OpenAI")

\* The error string the chain is to record for provider p under the outcomes
\* of this run.
ExpectedError(p) == ErrorMsg(p, ProviderBody(p, outcome[p]))

\* C2: once the turn is over, every provider whose attempt failed has its
\* (name, reason) pair among the recorded errors, and the provider after it
\* in the order has been attempted.
C2_FailureFallsThrough ==
    pc = "done" =>
        \A k \in 1..Len(ProviderOrder) :
            llm.status[ProviderOrder[k]] = "failed" =>
                /\ \E i \in 1..Len(llm.errors) : llm.errors[i] = ExpectedError(ProviderOrder[k])
                /\ k < Len(ProviderOrder) => ProviderOrder[k + 1] \in CalledProviders

\* C3: when all three providers fail, the chain returns, as a normal value,
\* the apology string whose error details are the three recorded errors in
\* attempt order, joined with "; ".
C3_TotalExhaustion ==
    (llm.calls # <<>> /\ \A p \in Providers : outcome[p] # "ok") =>
        llm.ret = Returned(Apology([i \in 1..Len(ProviderOrder) |->
                                        ExpectedError(ProviderOrder[i])]))

\* C4: no provider exception reaches the caller of the chain.
C4_NeverThrows == llm_exc = None

\* C5: the providers are called in the order OpenAI, Groq, NGU, each at most
\* once, a provider only after the attempts on all earlier ones have failed,
\* and at most one attempt is in flight.
C5_OrderedSequential ==
    /\ Len(llm.calls) <= Len(ProviderOrder)
    /\ \A i \in 1..Len(llm.calls) :
          /\ llm.calls[i] = ProviderOrder[i]
          /\ \A j \in 1..(i - 1) : llm.status[ProviderOrder[j]] = "failed"
    /\ Cardinality({p \in Providers : llm.status[p] = "inflight"}) <= 1

\* An attempt is in flight.
C5_Witness ==
    /\ llm.calls = <<"OpenAI">>
    /\ llm.status["OpenAI"] = "inflight"

\* ------------------------------------------------------------ chat turn
\* C6: a chat turn that is over has persisted a bot message and answered with
\* a normal response carrying that message's text.
C6_TurnCompletes ==
    pc = "done" =>
        /\ response # NoneRec
        /\ response.kind = "ChatResponse"
        /\ messages[Len(messages)].sender = "bot"
        /\ response.response = messages[Len(messages)].content

\* ------------------------------------------------------------ build_context
Steps == {steps[i] : i \in 1..Len(steps)}
PartTypes == {context_parts[i].type : i \in 1..Len(context_parts)}

\* The text of the degraded bundle.
DegradedContext == Cat(<<Blk("I'll help you with:", 4)>>, args.user_message)

\* C7: an exception raised inside build_context does not leave it: the call
\* has returned, and what it returned is the degraded bundle, whose context
\* is "I'll help you with: " followed by the user message, whose sources_used
\* is empty, whose reasoning is null and whose metadata carries the error.
C7_DegradedBundle ==
    bc_exc # None =>
        /\ pc = "bc_done"
        /\ bundle # NoneRec
        /\ bundle.context = DegradedContext
        /\ bundle.metadata.sources_used = <<>>
        /\ bundle.reasoning = NoneText
        /\ "error" \in DOMAIN bundle.metadata
        /\ bundle.metadata.error = bc_exc

\* The trimmer has raised after sources were gathered, and the call returned.
C7_Witness ==
    /\ bc_exc # None
    /\ pc = "bc_done"
    /\ metadata.sources_used # <<>>
    /\ bundle.metadata.sources_used = <<>>

\* The fragment kind a gathering step contributes.
StepKind(s) ==
    CASE s = "GatherHistory" -> "conversation_history"
      [] s = "SearchDocuments" -> "documents"
      [] s = "FallbackGeneralDocuments" -> "general_documents"
      [] OTHER -> "web_search"

\* Every gathering step that the flags and the document search call for has run.
EnabledStepsRun ==
    /\ args.include_conversation_history => "GatherHistory" \in Steps
    /\ args.include_documents =>
          /\ "SearchDocuments" \in Steps
          /\ "documents" \notin PartTypes => "FallbackGeneralDocuments" \in Steps
    /\ args.include_web_search => "WebSearch" \in Steps

RECURSIVE SumEst10(_)
SumEst10(parts) ==
    IF parts = <<>> THEN 0 ELSE Est10(Head(parts).content) + SumEst10(Tail(parts))

\* The user message and all fragments are within the token budget.
AllFit == Est10(args.user_message) + SumEst10(context_parts) < 10 * max_context_tokens

\* The fragments in the returned context, by the position of their part in
\* the (sorted) list of parts: the merge fills the context in that order.
InContext(i) == i <= Len(combined_context)
InContextInFull(i) == InContext(i) /\ combined_context[i] = context_parts[i].content

\* A step that did not fail and had data to report has its fragment.
HealthyStepsContribute ==
    /\ ("GatherHistory" \in Steps \ failed
            /\ SelectSession(messages, args.session_id) # <<>>)
          => "conversation_history" \in PartTypes
    /\ ("FallbackGeneralDocuments" \in Steps \ failed
            /\ SelectSession(documents, args.session_id) # <<>>)
          => "general_documents" \in PartTypes

StepOrder ==
    <<"Classify", "GatherHistory", "SearchDocuments", "FallbackGeneralDocuments",
      "WebSearch", "Merge&Trim", "ApplyReasoning", "Done">>
StepIndex(s) == CHOOSE i \in 1..Len(StepOrder) : StepOrder[i] = s

\* The steps taken so far follow the order, each at most once; Classify and
\* ApplyReasoning only with reasoning enabled; the fallback only after a
\* document search without hits; ApplyReasoning was given the merged text.
StepsFollowOrder ==
    /\ \A i, j \in 1..Len(steps) : i < j => StepIndex(steps[i]) < StepIndex(steps[j])
    /\ "Classify" \in Steps => args.enable_reasoning
    /\ "FallbackGeneralDocuments" \in Steps =>
          /\ "SearchDocuments" \in Steps
          /\ "documents" \notin PartTypes
    /\ "ApplyReasoning" \in Steps =>
          /\ args.enable_reasoning
          /\ "Merge&Trim" \in Steps
          /\ reasoning_arg = final_context
          /\ final_context = Join(combined_context)

\* C9: every build_context request walks its steps in the order Classify,
\* GatherHistory, SearchDocuments, FallbackGeneralDocuments, WebSearch,
\* Merge&Trim, ApplyReasoning, Done, each at most once, with the conditions
\* on Classify, the fallback and ApplyReasoning, and always reaches Done.
C9_StepOrder ==
    /\ []StepsFollowOrder
    /\ <>(pc = "bc_done" /\ steps # <<>> /\ steps[Len(steps)] = "Done")

\* A request that walked all eight steps.
C9_Witness ==
    /\ pc = "bc_done"
    /\ steps = StepOrder

\* ------------------------------------------------------------ the merge
RECURSIVE ByPriority(_)
\* The contents of a set of parts from the smallest priority number up.
ByPriority(S) ==
    IF S = {} THEN <<>>
    ELSE LET first == CHOOSE x \in S : \A y \in S : x.priority <= y.priority
         IN <<first.content>> \o ByPriority(S \ {first})

\* C10: when the user message and all fragments fit the budget, the merged
\* text is the fragments' contents in ascending priority number, whatever
\* the order in which the fragments were handed in.
C10_MergeRespectsPriority ==
    (pc = "combined" /\ AllFit) =>
        /\ bc_exc = None
        /\ combined_context =
              ByPriority({context_parts[i] : i \in 1..Len(context_parts)})
        /\ final_context = Join(combined_context)

\* Fragments handed in with priorities 3, 1, 4, 2 and merged as 1, 2, 3, 4.
C10_Witness ==
    /\ pc = "combined"
    /\ AllFit
    /\ metadata.sources_used =
          <<"web_search", "conversation_history", "general_documents", "documents">>
    /\ [i \in 1..Len(context_parts) |-> context_parts[i].priority] = <<1, 2, 3, 4>>
    /\ Len(combined_context) = Len(context_parts)

\* The running estimate, in tenths of a token, after the user message and
\* the first k parts.
RunningEst10(k) == Est10(args.user_message) + SumEst10(SubSeq(context_parts, 1, k))

\* The position, in priority order, of the first fragment that does not fit
\* whole; one past the last position when all fit.
OverflowIndex ==
    IF AllFit \/ context_parts = <<>> THEN Len(context_parts) + 1
    ELSE CHOOSE k \in 1..Len(context_parts) :
            /\ RunningEst10(k) >= 10 * max_context_tokens
            /\ \A j \in 1..(k - 1) : RunningEst10(j) < 10 * max_context_tokens

\* C11: after a merge, the fragments before the first one that does not fit
\* whole are in the merged context in full, and no fragment after it has
\* contributed anything: the merged list ends at the overflowing fragment.
C11_SingleOverflowThenStop ==
    pc = "combined" =>
        /\ Len(combined_context) <= OverflowIndex
        /\ Len(combined_context) <= Len(context_parts)
        /\ \A i \in 1..Len(combined_context) :
              i < OverflowIndex => combined_context[i] = context_parts[i].content
        /\ bc_exc = None => final_context = Join(combined_context)

\* A merge that truncated a fragment and left out a later one that would
\* have fitted in what was left of the budget.
C11_Witness ==
    /\ pc = "combined"
    /\ bc_exc = None
    /\ OverflowIndex < Len(context_parts)
    /\ Len(combined_context) = OverflowIndex
    /\ \E j \in (OverflowIndex + 1)..Len(context_parts) :
          RunningEst10(OverflowIndex - 1) + Est10(context_parts[j].content)
              < 10 * max_context_tokens

\* The parts at positions i that are in the merged list whole.
Whole(i) == i <= Len(combined_context) /\ combined_context[i] = context_parts[i].content

\* Some fragment is not in the merged list whole; the first such position.
SomeNotWhole == \E i \in 1..Len(context_parts) : ~Whole(i)
FirstNotWhole ==
    CHOOSE k \in 1..Len(context_parts) : ~Whole(k) /\ \A j \in 1..(k - 1) : Whole(j)

\* The merged list's entry k is a shortened fragment k followed by the marker.
TruncatedAt(k) ==
    /\ Len(combined_context) = k
    /\ combined_context[k][Len(combined_context[k])] = Blk("[Content truncated...]", 2)
    /\ Words(combined_context[k]) - 2 < Words(context_parts[k].content)
    /\ Words(combined_context[k]) > 2

\* Nothing of fragment k or of a later fragment is in the merged list.
NothingFrom(k) == Len(combined_context) = k - 1

\* C12 as stated: the estimate that decides the partial inclusion is that of
\* the fragments already appended; the first fragment not appended whole is
\* included truncated, with the marker, exactly when
\* budget - currentEstimate - 100 > 50, and contributes nothing otherwise.
C12_PartialInclusionFragmentsOnly ==
    (pc = "combined" /\ bc_exc = None /\ SomeNotWhole) =>
        IF 10 * max_context_tokens
              - SumEst10(SubSeq(context_parts, 1, FirstNotWhole - 1)) - 1000 > 500
        THEN TruncatedAt(FirstNotWhole)
        ELSE NothingFrom(FirstNotWhole)

\* C12, amended: the estimate that decides is that of the user message plus
\* the fragments already appended; with it, the first fragment not appended
\* whole is included truncated, with the marker, exactly when
\* budget - currentEstimate - 100 > 50, and contributes nothing otherwise.
C12_PartialInclusion ==
    (pc = "combined" /\ bc_exc = None /\ SomeNotWhole) =>
        IF 10 * max_context_tokens - RunningEst10(FirstNotWhole - 1) - 1000 > 500
        THEN TruncatedAt(FirstNotWhole)
        ELSE NothingFrom(FirstNotWhole)

\* The first fragment is in the context whole and the second one truncated,
\* with the marker.
C12_Witness ==
    /\ pc = "combined"
    /\ bc_exc = None
    /\ Len(context_parts) >= 2
    /\ Whole(1)
    /\ TruncatedAt(2)

\* A fragment that did not fit and for which less than the minimum was left
\* after the reserve: it contributed nothing.
C12_WitnessNothing ==
    /\ pc = "combined"
    /\ SomeNotWhole
    /\ NothingFrom(FirstNotWhole)
    /\ 10 * max_context_tokens - RunningEst10(FirstNotWhole - 1) - 1000 > 0

\* C13: the estimate (words x 1.3) of the context the merge returns, a
\* truncated fragment and its marker included, is at most the budget.
C13_ContextWithinBudget ==
    (pc = "combined" /\ bc_exc = None) => Est10(final_context) <= 10 * max_context_tokens

\* A merge that truncated a fragment, and whose fragments together with the
\* user message were estimated above the budget.
C13_Witness ==
    /\ pc = "combined"
    /\ bc_exc = None
    /\ SomeNotWhole
    /\ TruncatedAt(FirstNotWhole)
    /\ SumEst10(context_parts) > 10 * max_context_tokens

\* The source kinds listed so far by the call of build_context in progress.
SourcesUsed == {metadata.sources_used[i] : i \in 1..Len(metadata.sources_used)}

\* C14: a source whose enable flag in the request is false is never queried
\* during the request, and none of its kinds is in sources_used: no document
\* search and no general-documents fallback when document search is
\* disabled, no web search when web search is disabled.
C14_SourceFlagsHonoured ==
    /\ ~request.enable_document_search =>
          /\ Steps \cap {"SearchDocuments", "FallbackGeneralDocuments"} = {}
          /\ SourcesUsed \cap {"documents", "general_documents"} = {}
    /\ ~request.enable_web_search =>
          /\ "WebSearch" \notin Steps
          /\ "web_search" \notin SourcesUsed

SourceKinds == {"conversation_history", "documents", "general_documents", "web_search"}

\* Content of the fragment of a kind is in the returned bundle's context.
KindInContext(kind) ==
    /\ bc_exc = None
    /\ \E i \in 1..Len(combined_context) : context_parts[i].type = kind

\* C15: in every returned bundle, a kind is in sources_used if and only if
\* content of that kind's fragment is in the bundle's merged context.
C15_SourcesUsedExact ==
    pc = "bc_done" =>
        \A kind \in SourceKinds :
            (\E i \in 1..Len(bundle.metadata.sources_used) :
                  bundle.metadata.sources_used[i] = kind)
            <=> KindInContext(kind)

\* ---------------------------------------------------------------- classifier
QuestionTypes == {"analytical", "procedural", "creative", "comparative", "factual"}
CategoryOrder == <<"analytical", "procedural", "creative", "comparative">>
KeywordSet(category) ==
    CASE category = "analytical" -> analytical_keywords
      [] category = "procedural" -> procedural_keywords
      [] category = "creative" -> creative_keywords
      [] OTHER -> comparative_keywords

\* Some keyword of the category is in the message, whatever the case.
Matches(category) == AnyKeyword(KeywordSet(category), args.user_message)

\* C16: the classifier returns one of the five categories: the first one, in
\* the order analytical, procedural, creative, comparative, whose keyword set
\* has a case-insensitive match in the message, and factual exactly when no
\* set has one.
C16_FirstMatchWins ==
    pc = "classified" =>
        /\ metadata.question_type \in QuestionTypes
        /\ \A k \in 1..Len(CategoryOrder) :
              (Matches(CategoryOrder[k]) /\ \A j \in 1..(k - 1) : ~Matches(CategoryOrder[j]))
                  => metadata.question_type = CategoryOrder[k]
        /\ metadata.question_type = "factual"
              <=> \A k \in 1..Len(CategoryOrder) : ~Matches(CategoryOrder[k])

\* A message with a keyword of the analytical and of the comparative set,
\* and no other: it is classified analytical.
C16_Witness ==
    /\ pc = "classified"
    /\ Matches("analytical")
    /\ Matches("comparative")
    /\ ~Matches("procedural")
    /\ metadata.question_type = "analytical"

\* -------------------------------------------------------------------- prompt
\* The number of times a word, in any case, is in the messages that carry
\* the flag ("thumbs_down" or "thumbs_up").
RECURSIVE Occurrences(_, _, _)
Occurrences(word, msgs, flag) ==
    IF msgs = <<>> THEN 0
    ELSE (IF Head(msgs)[flag] THEN CountOf(word, LowerWords(Head(msgs).content)) ELSE 0)
         + Occurrences(word, Tail(msgs), flag)

\* The words of the stored messages, lower-cased.
FeedbackWords ==
    UNION {{lower(messages[i].content[j].w) : j \in 1..Len(messages[i].content)} :
              i \in 1..Len(messages)}

\* The words whose count over the messages with the flag is above 2.
Qualifying(flag) == {w \in FeedbackWords : Occurrences(w, messages, flag) > 2}

PromptLabels == [i \in 1..Len(prompt) |-> prompt[i].label]

\* The words of the prompt's note with the given label, if it has one.
NoteWords(label) ==
    UNION {{prompt[i].text[j].w : j \in 1..Len(prompt[i].text)} :
              i \in {k \in 1..Len(prompt) : prompt[k].label = label}}

ExpectedLabels ==
    <<"SYSTEM">>
    \o (IF Words(bundle.context) > 0 THEN <<"CONTEXT:">> ELSE <<>>)
    \o (IF Words(bundle.reasoning) > 0 THEN <<"REASONING ANALYSIS:">> ELSE <<>>)
    \o <<"USER MESSAGE:">>
    \o (IF Qualifying("thumbs_down") # {} THEN <<AvoidLabel>> ELSE <<>>)
    \o (IF Qualifying("thumbs_up") # {} THEN <<EncourageLabel>> ELSE <<>>)
    \o <<"RESPONSE:">>

\* C17: the prompt is, in this order, the preamble, the CONTEXT block iff
\* the context is non-blank, the REASONING ANALYSIS block iff the reasoning
\* is non-blank, USER MESSAGE, the avoid note iff a thumbs-down word
\* qualifies, the encourage note iff a thumbs-up word qualifies, and
\* RESPONSE:, each block with its text and none empty; with empty context,
\* reasoning and feedback it is exactly preamble, USER MESSAGE, RESPONSE:.
C17_FixedBlockOrder ==
    pc = "prompted" =>
        /\ PromptLabels = ExpectedLabels
        /\ \A i \in 1..Len(prompt) :
              /\ prompt[i].label = "CONTEXT:" => prompt[i].text = bundle.context
              /\ prompt[i].label = "REASONING ANALYSIS:" => prompt[i].text = bundle.reasoning
              /\ prompt[i].label = "USER MESSAGE:" => prompt[i].text = bundle.user_message
              /\ prompt[i].label # "RESPONSE:" => Words(prompt[i].text) > 0
        /\ (Words(bundle.context) = 0 /\ Words(bundle.reasoning) = 0
                /\ Qualifying("thumbs_down") = {} /\ Qualifying("thumbs_up") = {})
              => prompt = <<PromptBlock("SYSTEM", Txt("system_prompt")),
                            PromptBlock("USER MESSAGE:", bundle.user_message),
                            PromptBlock("RESPONSE:", EmptyText)>>

\* A prompt with all seven blocks.
C17_Witness ==
    /\ pc = "prompted"
    /\ PromptLabels = <<"SYSTEM", "CONTEXT:", "REASONING ANALYSIS:", "USER MESSAGE:",
                        AvoidLabel, EncourageLabel, "RESPONSE:">>

\* C18: a word is in the avoid note (the encourage note) of the prompt if
\* and only if its count over all thumbs-down (thumbs-up) messages is
\* greater than 2.
C18_FeedbackThreshold ==
    pc = "prompted" =>
        \A w \in FeedbackWords :
            /\ w \in NoteWords(AvoidLabel) <=> Occurrences(w, messages, "thumbs_down") > 2
            /\ w \in NoteWords(EncourageLabel) <=> Occurrences(w, messages, "thumbs_up") > 2

\* "wrong" with count 3 over the thumbs-down messages is in the avoid note,
\* "bad" with count 2 over them ("bad answer", "Bad format") is not.
C18_Witness ==
    /\ pc = "prompted"
    /\ Occurrences("wrong", messages, "thumbs_down") = 3
    /\ "wrong" \in NoteWords(AvoidLabel)
    /\ Occurrences("bad", messages, "thumbs_down") = 2
    /\ "bad" \notin NoteWords(AvoidLabel)

\* ------------------------------------------------------------------- trimmer
\* C19: the tokens of the trimmed text are the first min(b, len(tokens(t)))
\* tokens of t, so there are at most b of them, and a text within b tokens
\* is returned unchanged.
C19_TrimmerPrefix ==
    (pc = "trimmed" /\ trim.exc = None) =>
        LET tokens == encode(trim.text)
            kept == IF trim.max_tokens < Len(tokens) THEN trim.max_tokens ELSE Len(tokens)
        IN /\ encode(trim.result) = SubSeq(tokens, 1, kept)
           /\ Len(encode(trim.result)) <= trim.max_tokens
           /\ Len(tokens) <= trim.max_tokens => trim.result = trim.text

\* C20: called with a model name tiktoken does not know, the trimmer does
\* not fail: it returns a text, trimmed to the budget.
C20_UnknownModelFallsBack ==
    (pc = "trimmed" /\ trim.model_name \notin KnownModels) =>
        /\ trim.exc = None
        /\ trim.result # NoneText
        /\ Len(encode(trim.result)) <= trim.max_tokens

\* ---------------------------------------------------------------- web search
\* The search of the call failed: the request raised, or the endpoint
\* answered with a status other than 200.
WebSearchFailed == web_call.env # NoneRec /\ web_call.env.kind # "ok"

\* C21: search_web does not raise, and when the search fails (an exception
\* or a non-success status) it returns a list of exactly one result, the
\* sentinel titled "Search Unavailable".
C21_WebSearchSentinel ==
    WebSearchFailed =>
        /\ Len(web_call.web_results) = 1
        /\ web_call.web_results[1].title = Sentinel

\* ----------------------------------------------------------------- timeouts
\* C22: every provider attempt ends, in success or in failure, so that the
\* call of the chain and the await of what it returned come to an end: an
\* attempt in flight is eventually a success or a failure.
C22_AttemptsEnd ==
    \A p \in Providers :
        (llm.status[p] = "inflight") ~> (llm.status[p] \in {"success", "failed"})

\* ------------------------------------------- the reasoning functions alone
MaxReasonCalls == 2

ReasonMessages ==
    {Txt("Hello"),
     <<Blk("Is", 1), Blk("the", 1), Blk("latest", 1), Blk("news", 1), Blk("on", 1),
       Blk("inflation?", 1)>>,
     <<Blk("calculate", 1), Blk("document", 1), Blk("totals", 1)>>}

\* No context, a short one, and a formatted document fragment of more than
\* 300 characters.
ReasonContexts ==
    {EmptyText, Txt("Paris"),
     <<Blk("=== RELEVANT DOCUMENTS ===", 4), Blk("doc_info a.txt", 6), Blk("word", 70)>>}

ReasonTools ==
    {NoToolList, ToolList(<<"web_search", "document_search", "calculation", "analysis">>),
     ToolList(<<"document_search">>), ToolList(<<>>)}

\* The orders in which a process may list the distinct key concepts of a
\* message: PYTHONHASHSEED is random unless set, so every order can occur.
HashOrders(user_message) == Perms(KeyConceptSet(user_message))

ReasonInputs ==
    {[technique |-> "cot", context |-> c, user_message |-> m, question_type |-> q,
      available_tools |-> NoToolList] :
        c \in ReasonContexts, m \in ReasonMessages,
        q \in {"analytical", "procedural", "creative", "comparative", "factual", None}}
    \cup {[technique |-> t, context |-> c, user_message |-> m, question_type |-> None,
           available_tools |-> a] :
        t \in {"react", "hybrid"}, c \in ReasonContexts, m \in ReasonMessages,
        a \in ReasonTools}

ReasonInit ==
    /\ request = NoneRec
    /\ messages = <<>>
    /\ documents = <<>>
    /\ pc = "reason"
    /\ response = NoneRec
    /\ context_result = NoneRec
    /\ prompt = <<>>
    /\ outcome = [p \in Providers |-> "ok"]
    /\ llm = NoChain
    /\ bot_response = NoneText
    /\ bot_message_content = NoneText
    /\ llm_exc = None
    /\ caller = "direct"
    /\ args = NoArgs
    /\ context_parts = <<>>
    /\ metadata = NoMetadata
    /\ combined_context = <<>>
    /\ final_context = EmptyText
    /\ reasoning_output = NoneText
    /\ reasoning_arg = NoneText
    /\ bc_exc = None
    /\ bundle = NoneRec
    /\ steps = <<>>
    /\ failed = {}
    /\ trim = NoTrim
    /\ web_call = NoWeb
    /\ \E input \in ReasonInputs :
         \E hash_order \in HashOrders(input.user_message) :
            reason = input @@ [hash_order |-> hash_order, results |-> <<>>]

\* One call of the technique on the inputs, in the running process.
ReasonCall ==
    /\ pc = "reason"
    /\ Len(reason.results) < MaxReasonCalls
    /\ \E narrative \in
            {IF reason.technique = "cot"
             THEN chain_of_thought_reasoning(reason.context, reason.user_message,
                                             reason.question_type, reason.hash_order)
             ELSE IF reason.technique = "react"
             THEN react_reasoning(reason.context, reason.user_message,
                                  reason.available_tools, reason.hash_order)
             ELSE hybrid_reasoning(reason.context, reason.user_message,
                                   reason.available_tools, reason.hash_order)} :
         reason' = [reason EXCEPT !.results = Append(@, narrative)]
    /\ UNCHANGED <<pc, chatVars, llmVars, dbVars, bcVars, trim, web_call>>

\* The program is started again: the new process has its own hash seed.
ReasonRestart ==
    /\ pc = "reason"
    /\ reason.results # <<>>
    /\ Len(reason.results) < MaxReasonCalls
    /\ \E hash_order \in HashOrders(reason.user_message) :
         reason' = [reason EXCEPT !.hash_order = hash_order]
    /\ UNCHANGED <<pc, chatVars, llmVars, dbVars, bcVars, trim, web_call>>

ReasonNext == ReasonCall \/ ReasonRestart

ReasonSpec == ReasonInit /\ [][ReasonNext]_vars

\* C23: two invocations of a reasoning technique with the same context,
\* message and tools, in the same or in different runs of the program,
\* return the same text, key concepts in the same order included.
C23_NarrativesDeterministic ==
    reason # NoReason =>
        \A i, j \in 1..Len(reason.results) : reason.results[i] = reason.results[j]

IsPrefix(p, s) == Len(p) <= Len(s) /\ SubSeq(s, 1, Len(p)) = p

SectionLabels == <<ProblemAnalysis, ContextAnalysis, ReasoningStrategy, InformationSynthesis>>

\* The section headers of a narrative, in the order of their lines.
RECURSIVE SectionsOf(_)
SectionsOf(narrative) ==
    IF narrative = <<>> THEN <<>>
    ELSE (IF \E k \in 1..Len(SectionLabels) : IsPrefix(SectionLabels[k], Head(narrative).text)
          THEN <<CHOOSE l \in {SectionLabels[k] : k \in 1..Len(SectionLabels)} :
                     IsPrefix(l, Head(narrative).text)>>
          ELSE <<>>)
         \o SectionsOf(Tail(narrative))

\* C24: for every context, the empty one included, every message and every
\* category the chain-of-thought narrative has the sections Problem
\* Analysis, Context Analysis, Reasoning Strategy and Information Synthesis,
\* each exactly once and in that order.
C24_FourSections ==
    reason.technique = "cot" =>
        \A i \in 1..Len(reason.results) : SectionsOf(reason.results[i]) = SectionLabels

\* The tools the narrative's information-gathering action names.
RECURSIVE ToolsNamed(_)
ToolsNamed(narrative) ==
    IF narrative = <<>> THEN {}
    ELSE (IF Head(narrative).text = InformationGathering
          THEN {Head(narrative).items[k] : k \in 1..Len(Head(narrative).items)}
          ELSE {})
         \cup ToolsNamed(Tail(narrative))

ProvidedTools ==
    IF reason.available_tools.given
    THEN {reason.available_tools.tools[k] : k \in 1..Len(reason.available_tools.tools)}
    ELSE {DefaultTools[k] : k \in 1..Len(DefaultTools)}

\* C26: for every message and every list of available tools, the tools the
\* ReAct narrative's information-gathering action names are among the
\* provided tools.
C26_OnlyProvidedTools ==
    reason.technique = "react" =>
        \A i \in 1..Len(reason.results) : ToolsNamed(reason.results[i]) \subseteq ProvidedTools

\* ------------------------------------------------- unavailable web search
\* The search of the call gave nothing to show: no result at all, or
\* nothing but the sentinel.
WebSearchUnavailable ==
    /\ web_call.env # NoneRec
    /\ \A i \in 1..Len(web_call.web_results) : web_call.web_results[i].title = Sentinel

\* The words of the sentinel result as a fragment would show them.
SentinelWords ==
    {"web " \o Sentinel}
    \cup {r.snippet[k].w :
            r \in {search_web(EmptyText, 1, [kind |-> "raise", abstract |-> FALSE, topics |-> 0])[1]},
            k \in {1}}

ShowsSentinel(text) == \E i \in 1..Len(text) : text[i].w \in SentinelWords

\* C25: when the web search returns only the sentinel, or nothing, there is
\* no web_search fragment, "web_search" is not in sources_used, and the
\* sentinel's text is nowhere in the merged context or the returned bundle.
C25_UnavailableNotSurfaced ==
    WebSearchUnavailable =>
        /\ \A i \in 1..Len(context_parts) : context_parts[i].type # "web_search"
        /\ "web_search" \notin SourcesUsed
        /\ ~ShowsSentinel(final_context)
        /\ bundle # NoneRec =>
              /\ ~ShowsSentinel(bundle.context)
              /\ \A i \in 1..Len(bundle.metadata.sources_used) :
                    bundle.metadata.sources_used[i] # "web_search"

\* A bundle with a merged history was returned although the search raised.
C25_Witness ==
    /\ pc = "bc_done"
    /\ bc_exc = None
    /\ web_call.env # NoneRec
    /\ web_call.env.kind = "raise"
    /\ Len(web_call.web_results) = 1
    /\ bundle.context # EmptyText
    /\ "conversation_history" \in SourcesUsed

\* ------------------------------------------------- the user message's share
\* The estimate, in tenths of a token, of the fragments in the merged list
\* whole.
RECURSIVE WholeEst10(_)
WholeEst10(k) ==
    IF k = 0 THEN 0
    ELSE (IF Whole(k) THEN Est10(context_parts[k].content) ELSE 0) + WholeEst10(k - 1)

\* C27 as stated: the running estimate of the merge starts at the user
\* message's own estimate: in every result the user message's estimate plus
\* the estimates of the fragments included in full is below
\* max_context_tokens, and a fragment is included in full only if the
\* estimate of the user message and the fragments up to it is below
\* max_context_tokens.
C27_UserMessageCounts ==
    pc = "combined" =>
        /\ Est10(args.user_message) + WholeEst10(Len(context_parts)) < 10 * max_context_tokens
        /\ \A i \in 1..Len(context_parts) :
              Whole(i) => RunningEst10(i) < 10 * max_context_tokens

\* C27, amended: the running estimate starts at the user message's own
\* estimate: a fragment is included in full only if the estimate of the user
\* message and the fragments up to it is below max_context_tokens, so the
\* user message's estimate plus the estimates of the fragments included in
\* full is below max_context_tokens whenever a fragment is included in full;
\* a user message whose own estimate reaches max_context_tokens leaves the
\* merged context empty.
C27_UserMessageCountsWhenIncluded ==
    pc = "combined" =>
        /\ \A i \in 1..Len(context_parts) :
              Whole(i) => RunningEst10(i) < 10 * max_context_tokens
        /\ (\E i \in 1..Len(context_parts) : Whole(i)) =>
              Est10(args.user_message) + WholeEst10(Len(context_parts))
                  < 10 * max_context_tokens
        /\ Est10(args.user_message) >= 10 * max_context_tokens => combined_context = <<>>

\* A merge that took a first fragment whole and not the next one, which the
\* budget would have held but for the user message.
C27_Witness ==
    /\ pc = "combined"
    /\ bc_exc = None
    /\ Len(context_parts) >= 2
    /\ Whole(1)
    /\ ~Whole(2)
    /\ SumEst10(SubSeq(context_parts, 1, 2)) < 10 * max_context_tokens
    /\ Est10(args.user_message) > 0

\* ------------------------------------------ targeted and fallback documents
\* The source kinds of the returned bundle.
BundleSources == {bundle.metadata.sources_used[i] : i \in 1..Len(bundle.metadata.sources_used)}

\* C28: sources_used never holds both "documents" and "general_documents",
\* during the call and in the returned bundle, and "general_documents" is
\* there only when document search was enabled, ran and returned no result.
C28_DocumentKindsExclusive ==
    /\ ~({"documents", "general_documents"} \subseteq SourcesUsed)
    /\ "general_documents" \in SourcesUsed =>
          /\ args.include_documents
          /\ "SearchDocuments" \in Steps
          /\ "FallbackGeneralDocuments" \in Steps
          /\ "documents" \notin PartTypes
    /\ pc = "bc_done" =>
          /\ ~({"documents", "general_documents"} \subseteq BundleSources)
          /\ "general_documents" \in BundleSources =>
                /\ args.include_documents
                /\ "SearchDocuments" \in Steps
                /\ "documents" \notin PartTypes

\* A bundle with the general documents, returned after a document search
\* that ran without failure and found nothing.
C28_Witness ==
    /\ pc = "bc_done"
    /\ "general_documents" \in BundleSources
    /\ "SearchDocuments" \in Steps \ failed

\* ------------------------------------------------------- reasoning failure
\* The reasoning engine raised while build_context applied it.
ReasoningRaised == reason # NoReason /\ pc \in {"bc_return", "bc_done"} /\ reason.engine = "raise"

\* C29: when the reasoning engine raises while it is applied, build_context
\* neither fails nor returns the degraded bundle: the merged context and
\* sources_used stay as gathered, and the returned bundle holds them, with
\* a reasoning text that starts with "Reasoning Error: ".
C29_ReasoningFailureKeepsBundle ==
    ReasoningRaised =>
        /\ bc_exc = None
        /\ final_context = Join(combined_context)
        /\ SourcesUsed = PartTypes
        /\ Len(metadata.sources_used) = Len(context_parts)
        /\ pc = "bc_done" =>
              /\ bundle.context = final_context
              /\ bundle.metadata.sources_used = metadata.sources_used
              /\ "error" \notin DOMAIN bundle.metadata
              /\ SubSeq(bundle.reasoning, 1, 1) = <<Blk("Reasoning Error:", 2)>>

\* A bundle with merged fragments returned after the engine raised.
C29_Witness ==
    /\ ReasoningRaised
    /\ pc = "bc_done"
    /\ bundle.context # EmptyText
    /\ Len(bundle.metadata.sources_used) >= 2

\* ------------------------------------------------ the turn's own message
\* The chat turn's build_context has gathered the history.
HistoryGathered == caller = "chat" /\ "GatherHistory" \in Steps

\* The messages of the session in the store, oldest first, and how many of
\* them the history window holds.
SessionMessages == SelectSession(messages, args.session_id)
Shown ==
    IF Len(SessionMessages) < args.max_history_messages
    THEN Len(SessionMessages) ELSE args.max_history_messages

\* The history fragment holds the Shown most recent messages of the
\* session, oldest first, the last of them being the turn's user message.
HistoryEndsWithCurrent ==
    /\ Shown >= 1
    /\ SessionMessages[Len(SessionMessages)]
          = Message(request.session_id, "user", request.message)
    /\ \E i \in 1..Len(context_parts) :
          /\ context_parts[i].type = "conversation_history"
          /\ context_parts[i].content # EmptyText
          /\ context_parts[i].content
                = Join([k \in 1..Shown |->
                          HistoryLine(SessionMessages[Len(SessionMessages) - Shown + k])])

\* C30 as stated: in every chat turn the user message is in the store before
\* build_context reads the history, so the turn's history fragment is not
\* empty, its last entry is the current user message, and it holds at most
\* max_history_messages messages of the session, oldest first.
C30_HistoryEndsWithCurrent ==
    HistoryGathered => HistoryEndsWithCurrent

\* C30, amended: the user message is in the store before build_context
\* reads the history, so, unless the history query fails, the turn's history
\* fragment is not empty, its last entry is the current user message, and it
\* holds at most max_history_messages messages of the session, oldest first;
\* when the query fails there is no history fragment.
C30_HistoryEndsWithCurrentUnlessFailed ==
    HistoryGathered =>
        /\ SessionMessages # <<>>
        /\ SessionMessages[Len(SessionMessages)]
              = Message(request.session_id, "user", request.message)
        /\ IF "GatherHistory" \in failed
           THEN "conversation_history" \notin PartTypes
           ELSE HistoryEndsWithCurrent

\* A turn whose history was gathered from a session with more messages than
\* the window holds.
C30_Witness ==
    /\ HistoryGathered
    /\ "GatherHistory" \notin failed
    /\ Len(SessionMessages) > args.max_history_messages
    /\ pc = "prompt"
    /\ "conversation_history" \in BundleSources

=============================================================================
